---------------------------- MODULE Spec2Model ----------------------------
(***************************************************************************)
(* Header-chain engine of electrum/blockchain.py (Wagerr-Electrum).        *)
(*                                                                         *)
(* The program state is the set of Blockchain instances, the registry      *)
(* `blockchains`, the chain-work cache and the header files on disk.       *)
(* Every public operation is one action; an operation that raises part way *)
(* leaves the state it had reached when the exception left it.             *)
(*                                                                         *)
(* Scale.  The code works on 256-bit integers and on files of thousands of *)
(* 80..N byte records; TLC has 32-bit integers.  The model keeps every     *)
(* formula of the code and scales the sizes it is applied to:              *)
(*   - a "byte" of a target is one radix-BYTE digit and a target has       *)
(*     TARGET_BYTES of them (2**256 becomes BYTE^TARGET_BYTES);            *)
(*   - a header file is a sequence of words; an integer field of a header  *)
(*     is one word and a hash HASH_WORDS words;                            *)
(*   - the height constants (the chunk length 2016, DGW_PAST_BLOCKS,       *)
(*     LAST_POW_BLOCK, the time-protocol-v2 height, the header-size eras)  *)
(*     are small numbers in the same order as in the code.                 *)
(***************************************************************************)
EXTENDS Integers, Sequences, FiniteSets, TLC

(***************************************************************************)
(* Bounds of the model.                                                    *)
(***************************************************************************)
\* highest block height a header offered to the engine may have
MaxHeight == 4
\* number of Blockchain instances that are ever constructed
MaxInst == 3
\* state-changing operations in one run
MaxOps == 3
\* headers in the headers file at start, when it is not empty
InitHeaders == 5

(***************************************************************************)
(* Scaled program constants.                                               *)
(***************************************************************************)
\* blockchain.py:326 CHUNK_SIZE = 2016 (and the literal 2016 elsewhere)
CHUNK_SIZE == 2
\* blockchain.py:40 DGW_PAST_BLOCKS = 24
DGW_PAST_BLOCKS == 2
\* blockchain.py:41 LAST_POW_BLOCK = 1001
LAST_POW_BLOCK == 2
\* blockchain.py:544 nBlockTimeProtocolV2 height 1501000
TIME_V2_HEIGHT == 4
\* blockchain.py:39 DGW_TARGET_SPACING = 60 (seconds, unscaled)
DGW_TARGET_SPACING == 60

\* one hexadecimal digit of the target constants (blockchain.py:38,43,554)
NIBBLE == 4
\* one byte of a target: two hexadecimal digits
BYTE == NIBBLE * NIBBLE
\* number of bytes of a target or hash read as a number ("%064x")
TARGET_BYTES == 6
\* 2 ** 256
TWO_256 == BYTE ^ TARGET_BYTES

\* 0x00000FFFFF...F : five zero nibbles, the rest ones
MIN_POW == NIBBLE ^ (2 * TARGET_BYTES - 5) - 1
\* 0x00000FFFF000...0 : five zero nibbles, four F nibbles, the rest zero
MAX_TARGET == (NIBBLE ^ 4 - 1) * NIBBLE ^ (2 * TARGET_BYTES - 9)
\* 0x000000FFFF...F : six zero nibbles, the rest ones
bnTargetLimit == NIBBLE ^ (2 * TARGET_BYTES - 6) - 1

(***************************************************************************)
(* Results of calls that may raise.                                        *)
(***************************************************************************)
Ok(v) == [exc |-> "ok", v |-> v]
Raise(e) == [exc |-> e, v |-> 0]
IsOk(r) == r.exc = "ok"

\* sequencing of calls that may raise: the rest of the caller runs on the
\* value of a call that returned, and is skipped when the call raised
Bind(r, K(_)) == IF r.exc = "ok" THEN K(r.v) ELSE r
\* a local name for a value
Let(v, K(_)) == K(v)

\* Python's None where a header (a record) is expected
None == [none |-> TRUE]
IsNone(x) == "none" \in DOMAIN x

Reverse(s) == [i \in 1..Len(s) |-> s[Len(s) + 1 - i]]
Min(a, b) == IF a < b THEN a ELSE b
Max(a, b) == IF a > b THEN a ELSE b
\* Python slice s[a:b] on a sequence of words, a and b counted from 0
Slice(s, a, b) ==
    LET lo == Max(a, 0)
        hi == Min(b, Len(s))
    IN  IF hi <= lo THEN <<>> ELSE SubSeq(s, lo + 1, hi)

(***************************************************************************)
(* Header layout policy: constants.net.COIN (electrum/coins.py).           *)
(***************************************************************************)
\* words of a hash (32 bytes)
HASH_WORDS == 3
\* version, prev_block_hash, merkle_root, timestamp, bits, nonce
PRE_ZEROCOIN_HEADER_SIZE == 4 + 2 * HASH_WORDS
\* base header followed by the accumulator checkpoint (a 32-byte hash)
ZEROCOIN_HEADER_SIZE == PRE_ZEROCOIN_HEADER_SIZE + HASH_WORDS
\* the larger record of the last era
HEADER_V7_SIZE == ZEROCOIN_HEADER_SIZE + 1
\* first height of the accumulator-checkpoint era
PRE_ZEROCOIN_BLOCKS == 1
\* first height of the last era
HEADER_V7_BLOCKS == 3
\* block versions that mark the eras
ZEROCOIN_BLOCK_VERSION == 4
V7_BLOCK_VERSION == 7

get_header_size_height(height) ==
    IF height >= HEADER_V7_BLOCKS THEN HEADER_V7_SIZE
    ELSE IF height >= PRE_ZEROCOIN_BLOCKS THEN ZEROCOIN_HEADER_SIZE
    ELSE PRE_ZEROCOIN_HEADER_SIZE

static_header_offset(height) ==
    IF height >= HEADER_V7_BLOCKS
    THEN PRE_ZEROCOIN_HEADER_SIZE * PRE_ZEROCOIN_BLOCKS
         + ZEROCOIN_HEADER_SIZE * (HEADER_V7_BLOCKS - PRE_ZEROCOIN_BLOCKS)
         + HEADER_V7_SIZE * (height - HEADER_V7_BLOCKS)
    ELSE IF height >= PRE_ZEROCOIN_BLOCKS
    THEN PRE_ZEROCOIN_HEADER_SIZE * PRE_ZEROCOIN_BLOCKS
         + ZEROCOIN_HEADER_SIZE * (height - PRE_ZEROCOIN_BLOCKS)
    ELSE PRE_ZEROCOIN_HEADER_SIZE * height

\* size of the record that starts with the given leading words
get_header_size(header) ==
    IF Len(header) = 0 THEN PRE_ZEROCOIN_HEADER_SIZE
    ELSE IF header[1] >= V7_BLOCK_VERSION THEN HEADER_V7_SIZE
    ELSE IF header[1] >= ZEROCOIN_BLOCK_VERSION THEN ZEROCOIN_HEADER_SIZE
    ELSE PRE_ZEROCOIN_HEADER_SIZE

check_header_size(header) == Len(header) = get_header_size(header)

\* the block version of the era of a height
VersionAt(height) ==
    IF height >= HEADER_V7_BLOCKS THEN V7_BLOCK_VERSION
    ELSE IF height >= PRE_ZEROCOIN_BLOCKS THEN ZEROCOIN_BLOCK_VERSION
    ELSE 1

(***************************************************************************)
(* HeaderCodec.                                                            *)
(***************************************************************************)
ZERO_HASH == [i \in 1..HASH_WORDS |-> 0]

\* bitcoin.rev_hex / bitcoin.hash_encode: byte order display <-> wire
rev_hex(s) == Reverse(s)
hash_encode(s) == Reverse(s)

\* a serialization that leaves the hash fields in display order
SerializedUnreversed(h) ==
    <<h.version>> \o h.prev_block_hash \o h.merkle_root
        \o <<h.timestamp, h.bits, h.nonce>>
        \o (IF Len(h.acc_check_point) > 0 THEN h.acc_check_point ELSE <<>>)

serialize_header(h) ==
    <<h.version>> \o rev_hex(h.prev_block_hash) \o rev_hex(h.merkle_root)
        \o <<h.timestamp, h.bits, h.nonce>>
        \o (IF Len(h.acc_check_point) > 0 THEN rev_hex(h.acc_check_point) ELSE <<>>)

deserialize_header(s, height) ==
    IF Len(s) = 0 THEN Raise("InvalidHeader")
    ELSE IF ~check_header_size(s) THEN Raise("InvalidHeader")
    ELSE Ok([version |-> s[1],
             prev_block_hash |-> hash_encode(Slice(s, 1, 1 + HASH_WORDS)),
             merkle_root |-> hash_encode(Slice(s, 1 + HASH_WORDS, 1 + 2 * HASH_WORDS)),
             timestamp |-> s[2 + 2 * HASH_WORDS],
             bits |-> s[3 + 2 * HASH_WORDS],
             nonce |-> s[4 + 2 * HASH_WORDS],
             block_height |-> height,
             acc_check_point |->
                 IF Len(s) > PRE_ZEROCOIN_HEADER_SIZE
                 THEN hash_encode(Slice(s, PRE_ZEROCOIN_HEADER_SIZE, Len(s)))
                 ELSE <<>>])

(***************************************************************************)
(* The two digests.  A digest is a function of the serialized words only;  *)
(* it has HASH_WORDS words: two polynomial lanes over the words and, as    *)
(* most significant word, the word at the nonce position, so that the      *)
(* magnitude of a hash against a target is decided by the nonce.           *)
(***************************************************************************)
LANE1 == 8388593
LANE2 == 8388571

RECURSIVE Absorb(_, _, _, _, _)
Absorb(s, i, d, m, p) ==
    IF i > Len(s) THEN d ELSE Absorb(s, i + 1, (d * m + s[i] + 1) % p, m, p)

Lead(s) == IF Len(s) >= PRE_ZEROCOIN_HEADER_SIZE
           THEN s[PRE_ZEROCOIN_HEADER_SIZE] % TWO_256 ELSE 0

\* crypto.sha256d: digest bytes, least significant first
sha256d(s) == <<Absorb(s, 1, 3, 131, LANE2), Absorb(s, 1, 5, 137, LANE1), Lead(s)>>
\* quark_hash.getPoWHash
quarkhash(s) == <<Absorb(s, 1, 7, 127, LANE2), Absorb(s, 1, 11, 139, LANE1), Lead(s)>>

hash_raw_header(header) ==
    IF Len(header) > 0 /\ header[1] % BYTE = 1
    THEN hash_encode(quarkhash(header))
    ELSE hash_encode(sha256d(header))

hash_header(header) ==
    IF IsNone(header) THEN ZERO_HASH
    ELSE hash_raw_header(serialize_header(header))

\* int.from_bytes(bfh(_hash), byteorder='big'), in units of the target
hash_as_num(hash) == hash[1]

(***************************************************************************)
(* Compact target encoding.                                                *)
(***************************************************************************)
bits_to_target(bits) ==
    LET bitsN == (bits \div (BYTE ^ 3)) % BYTE
        bitsBase == bits % (BYTE ^ 3)
    IN  IF ~(3 <= bitsN /\ bitsN <= TARGET_BYTES - 2) THEN Raise("Exception")
        ELSE IF ~((BYTE ^ 2) \div 2 <= bitsBase /\ bitsBase <= (BYTE ^ 3) \div 2 - 1)
             THEN Raise("Exception")
        ELSE Ok(bitsBase * BYTE ^ (bitsN - 3))

\* number of bytes of c after stripping leading zero bytes, at least three
RECURSIVE StripZeroBytes(_, _)
StripZeroBytes(c, len) ==
    IF len > 3 /\ c \div (BYTE ^ (len - 1)) = 0
    THEN StripZeroBytes(c, len - 1) ELSE len

target_to_bits(target) ==
    LET c == target % (BYTE ^ (TARGET_BYTES - 1))
        len == StripZeroBytes(c, TARGET_BYTES - 1)
        base == c \div (BYTE ^ (len - 3))
    IN  IF base >= (BYTE ^ 3) \div 2
        THEN (len + 1) * BYTE ^ 3 + base \div BYTE
        ELSE len * BYTE ^ 3 + base

\* timestamp of the genesis header
GenesisTime == 1000

\* the network's genesis header and its hash, constants.net.GENESIS
GenesisHeader ==
    [version |-> 1, prev_block_hash |-> ZERO_HASH, merkle_root |-> <<0, 0, 1>>,
     timestamp |-> GenesisTime, bits |-> target_to_bits(MAX_TARGET), nonce |-> 0,
     block_height |-> 0, acc_check_point |-> <<>>]
GENESIS == hash_header(GenesisHeader)

(***************************************************************************)
(* Program state.                                                          *)
(*   chains      the Blockchain instances constructed so far; instance i   *)
(*               is chains[i], its parent an instance number or 0 (None)   *)
(*   files       the header files that exist, by path                      *)
(*   blockchains the registry: block hash at forkpoint -> instance         *)
(*   cache       _CHAINWORK_CACHE: block hash -> chain work                *)
(*   TESTNET     constants.net.TESTNET                                     *)
(*   CHECKPOINTS len(constants.net.CHECKPOINTS)                            *)
(*   last        the last operation that changed the state, and how it     *)
(*               ended                                                     *)
(*   ops         number of operations that changed the state               *)
(*   log         what swap_with_parent did during that last operation:     *)
(*               one entry per swap of a chain with its parent, with the   *)
(*               state before and after it, and one per normal return      *)
(*   call        a call of a module-level function that touches no state:  *)
(*               its arguments and, once it has run, its result            *)
(***************************************************************************)
VARIABLES chains, files, blockchains, cache, TESTNET, CHECKPOINTS, last, ops, log, call

vars == <<chains, files, blockchains, cache, TESTNET, CHECKPOINTS, last, ops, log, call>>

\* no call of a module-level function is under way
NoCall == [op |-> "none"]

\* the mutable part, passed through the calls of one operation, and the log
\* of the operation, empty when it starts
World == [chains |-> chains, files |-> files, blockchains |-> blockchains,
          cache |-> cache, log |-> <<>>]

\* the program's state in w, without the log
Snapshot(w) == [chains |-> w.chains, files |-> [q \in DOMAIN w.files |-> w.files[q]],
                blockchains |-> w.blockchains, cache |-> w.cache]

\* w with one more entry in the log: swap_with_parent on chain c, whose parent
\* was p, swapped the two (ev = "swapped") or returned (ev = "returned")
Logged(w, ev, c, p, before) ==
    [w EXCEPT !.log = Append(@, [ev |-> ev, c |-> c, p |-> p, before |-> Snapshot(before),
                                 after |-> Snapshot(w)])]

\* result of a call that may change the state: the state it left, how it
\* ended and what it returned
Ret(w, v) == [w |-> w, exc |-> "ok", v |-> v]
Fail(w, e) == [w |-> w, exc |-> e, v |-> 0]
\* inside a state-changing operation: a call that reads only; when it raises
\* the operation ends in state w
Try(w, r, K(_)) == IF r.exc = "ok" THEN K(r.v) ELSE Fail(w, r.exc)
\* a state-changing call; the rest of the caller runs on its result
Then(r, K(_)) == IF r.exc = "ok" THEN K(r) ELSE r

\* Python None where a hash string is expected
NONE_HASH == [i \in 1..HASH_WORDS |-> 0 - 1]

\* path of 'blockchain_headers'
RootPath == <<0 - 1>> \o ZERO_HASH \o ZERO_HASH

max_checkpoint == Max(0, CHECKPOINTS * CHUNK_SIZE - 1)

path(w, c) ==
    IF w.chains[c].parent = 0 THEN Ok(RootPath)
    ELSE IF ~(w.chains[c].forkpoint > 0) THEN Raise("AssertionError")
    ELSE IF w.chains[c].prev_hash = NONE_HASH THEN Raise("AttributeError")
    ELSE Ok(<<w.chains[c].forkpoint>> \o w.chains[c].prev_hash
            \o w.chains[c].forkpoint_hash)

get_id(w, c) == w.chains[c].forkpoint_hash

size(w, c) == w.chains[c].size

height(w, c) == w.chains[c].forkpoint + w.chains[c].size - 1

\* number of headers the code takes a file of the given length to hold
SizeOfFile(fileSize) ==
    IF fileSize > static_header_offset(HEADER_V7_BLOCKS)
    THEN HEADER_V7_BLOCKS
         + (fileSize - static_header_offset(HEADER_V7_BLOCKS)) \div HEADER_V7_SIZE
    ELSE IF fileSize > static_header_offset(PRE_ZEROCOIN_BLOCKS)
    THEN PRE_ZEROCOIN_BLOCKS
         + (fileSize - static_header_offset(PRE_ZEROCOIN_BLOCKS)) \div ZEROCOIN_HEADER_SIZE
    ELSE fileSize \div PRE_ZEROCOIN_HEADER_SIZE

update_size(w, c) ==
    Try(w, path(w, c), LAMBDA p :
        Ret([w EXCEPT !.chains[c].size =
                IF p \in DOMAIN w.files THEN SizeOfFile(Len(w.files[p])) ELSE 0], 0))

Zeros(n) == [i \in 1..n |-> 0]

\* what read_header makes of the bytes h it read for a record of hdrSz bytes
HeaderOfBytes(h, hdrSz, at) ==
    IF Len(h) = 0 THEN Raise("MissingHeader")
    ELSE IF Len(h) < hdrSz THEN Raise("Exception")
    ELSE IF h = Zeros(hdrSz) THEN Ok(None)
    ELSE deserialize_header(h, at)

\* the end of read_header: the record of height h is read from the file of
\* chain c
ReadOwn(w, c, h) ==
    Bind(path(w, c), LAMBDA name :
        IF name \notin DOMAIN w.files THEN Raise("FileNotFoundError")
        ELSE HeaderOfBytes(
                 Slice(w.files[name],
                       static_header_offset(h)
                           - static_header_offset(w.chains[c].forkpoint),
                       static_header_offset(h)
                           - static_header_offset(w.chains[c].forkpoint)
                           + get_header_size_height(h)),
                 get_header_size_height(h), h))

\* read_header; d bounds the depth of the recursion into the parents
\* (Python's recursion limit)
RECURSIVE read_header_d(_, _, _, _)

\* a header other than the one the parent returned
Altered(r) == IF IsOk(r) /\ ~IsNone(r.v) THEN Ok([r.v EXCEPT !.nonce = @ + 1]) ELSE r

\* a delegation that does not hand on the parent's answer as it is
DelegatedAltered(w, c, h, d) ==
    IF w.chains[c].parent = 0 THEN Raise("AttributeError")
    ELSE Altered(read_header_d(w, w.chains[c].parent, h, d - 1))

\* return self.parent.read_header(height)
Delegated(w, c, h, d) ==
    IF w.chains[c].parent = 0 THEN Raise("AttributeError")
    ELSE IF d = 0 THEN Raise("RecursionError")
    ELSE read_header_d(w, w.chains[c].parent, h, d - 1)

read_header_d(w, c, h, d) ==
    IF h < 0 THEN Ok(None)
    ELSE IF h < w.chains[c].forkpoint THEN Delegated(w, c, h, d)
    ELSE IF h > height(w, c) THEN Ok(None)
    ELSE ReadOwn(w, c, h)

read_header(w, c, h) == read_header_d(w, c, h, Len(w.chains))

get_hash(w, c, h) ==
    IF h = 0 - 1 THEN Ok(ZERO_HASH)
    ELSE IF h = 0 THEN Ok(GENESIS)
    ELSE Bind(read_header(w, c, h), LAMBDA header :
            IF IsNone(header) THEN Raise("MissingHeader")
            ELSE Ok(hash_header(header)))

\* header_hash == self.get_hash(height), False when get_hash raises
HashIs(r, header_hash) == r.exc = "ok" /\ header_hash = r.v

check_hash(w, c, h, header_hash) == HashIs(get_hash(w, c, h), header_hash)

(***************************************************************************)
(* DifficultyEngine.                                                       *)
(***************************************************************************)
isfTimeV2(h) == h >= TIME_V2_HEIGHT

\* first header of the list with the given height, or None
RECURSIVE FindInChain(_, _, _)
FindInChain(chain, i, h) ==
    IF i > Len(chain) THEN None
    ELSE IF chain[i].block_height = h THEN chain[i]
    ELSE FindInChain(chain, i + 1, h)

header_from_chain(w, c, chain, h) ==
    Bind(read_header(w, c, h), LAMBDA header :
        IF ~IsNone(header) THEN Ok(header) ELSE Ok(FindInChain(chain, 1, h)))

\* the retarget of get_target_wagerr after the window has been averaged
DgwRetarget(past_target_average, time_span) ==
    Min((past_target_average
            * Min(Max(time_span, (DGW_PAST_BLOCKS * DGW_TARGET_SPACING) \div 3),
                  (DGW_PAST_BLOCKS * DGW_TARGET_SPACING) * 3))
        \div (DGW_PAST_BLOCKS * DGW_TARGET_SPACING), MIN_POW)

\* the windowed average of get_target_wagerr, from iteration `count` on
RECURSIVE DgwLoop(_, _, _, _, _, _, _)
DgwLoop(w, c, chain, count, lastH, avg, end_time) ==
    IF count > DGW_PAST_BLOCKS
    THEN IF IsNone(lastH) THEN Raise("AttributeError")
         ELSE Ok(DgwRetarget(avg, end_time - lastH.timestamp))
    ELSE IF IsNone(lastH) THEN Raise("AttributeError")
    ELSE Bind(bits_to_target(lastH.bits), LAMBDA target :
           Bind(IF count # DGW_PAST_BLOCKS
                THEN header_from_chain(w, c, chain, lastH.block_height - 1)
                ELSE Ok(lastH),
                LAMBDA nxt :
                    DgwLoop(w, c, chain, count + 1, nxt,
                            IF count = 1 THEN target
                            ELSE ((avg * count) + target) \div (count + 1),
                            end_time)))

\* the arithmetic of the single-previous-header formula
PosRetarget(h, spacing, new_target) ==
    LET fTimeV2 == isfTimeV2(h)
        nTargetSpacing == 60
        nTimeSlotLength == 15
        nTargetTimespan_V2 == 2 * nTimeSlotLength * 60
        nTargetTimespan_V1 == 40 * 60
        nTargetTimespan == IF fTimeV2 THEN nTargetTimespan_V2 ELSE nTargetTimespan_V1
        spacing1 == IF spacing < 0 THEN 1 ELSE spacing
        nActualSpacing == IF fTimeV2 /\ spacing1 > nTargetSpacing * 10
                          THEN nTargetSpacing * 10 ELSE spacing1
        t1 == IF fTimeV2 /\ ~isfTimeV2(h - 1) THEN new_target * NIBBLE ELSE new_target
        nInterval == nTargetTimespan \div nTargetSpacing
        t2 == t1 * ((nInterval - 1) * nTargetSpacing + nActualSpacing + nActualSpacing)
        t3 == t2 \div ((nInterval + 1) * nTargetSpacing)
    IN  IF t3 <= 0 \/ t3 > bnTargetLimit THEN bnTargetLimit ELSE t3

\* the single-previous-header formula of get_target_wagerr
PosTarget(w, c, chain, h, lastH) ==
    Bind(IF h - 1 # 0 THEN header_from_chain(w, c, chain, h - 2) ELSE Ok(lastH),
         LAMBDA lastToLast :
            IF IsNone(lastToLast) THEN Raise("AttributeError")
            ELSE Bind(bits_to_target(lastH.bits), LAMBDA new_target :
                    Ok(PosRetarget(h, lastH.timestamp - lastToLast.timestamp,
                                   new_target))))

get_target_wagerr(w, c, h, chain) ==
    IF ~(h > 0) THEN Raise("AssertionError")
    ELSE Bind(header_from_chain(w, c, chain, h - 1), LAMBDA lastH :
            IF IsNone(lastH) \/ h < DGW_PAST_BLOCKS THEN Ok(MIN_POW)
            ELSE IF h - 1 > LAST_POW_BLOCK THEN PosTarget(w, c, chain, h, lastH)
            ELSE DgwLoop(w, c, chain, 1, lastH, 0, lastH.timestamp))

get_target(w, c, h, chain) ==
    IF TESTNET THEN Ok(0)
    ELSE IF h = 0 THEN Ok(MAX_TARGET)
    ELSE get_target_wagerr(w, c, h, chain)

\* verify_header once the header has been hashed; expected_header_hash is
\* NONE_HASH for None
VerifyHashed(hash, header, prev_hash, target, expected_header_hash, proof_was_provided) ==
    IF expected_header_hash # NONE_HASH /\ expected_header_hash # hash
    THEN Raise("Exception")
    ELSE IF prev_hash # header.prev_block_hash THEN Raise("Exception")
    ELSE IF TESTNET THEN Ok(0)
    ELSE IF proof_was_provided THEN Ok(0)
    ELSE IF target_to_bits(target) # header.bits THEN Raise("Exception")
    ELSE IF header.block_height <= LAST_POW_BLOCK /\ hash_as_num(hash) > target
         THEN Raise("Exception")
    ELSE Ok(0)

\* a verification that asks for proof of work at every height
VerifyWorkAlways(header, prev_hash, target, expected_header_hash, proof_was_provided) ==
    IF IsOk(VerifyHashed(hash_header(header), header, prev_hash, target,
                         expected_header_hash, proof_was_provided))
       /\ ~TESTNET /\ ~proof_was_provided /\ hash_as_num(hash_header(header)) > target
    THEN Raise("Exception")
    ELSE VerifyHashed(hash_header(header), header, prev_hash, target, expected_header_hash,
                      proof_was_provided)

verify_header(header, prev_hash, target, expected_header_hash, proof_was_provided) ==
    VerifyHashed(hash_header(header), header, prev_hash, target, expected_header_hash,
                 proof_was_provided)

(***************************************************************************)
(* Byte store.                                                             *)
(***************************************************************************)
\* f.truncate() at offset: cuts, or extends with zero bytes
Truncate(f, offset) ==
    IF offset <= Len(f) THEN Slice(f, 0, offset) ELSE f \o Zeros(offset - Len(f))

\* f.seek(offset); f.write(data)
WriteAt(f, data, offset) ==
    IF Len(data) = 0 THEN f
    ELSE Truncate(f, offset) \o data \o Slice(f, offset + Len(data), Len(f))

AddFile(fs, p, data) == [q \in DOMAIN fs \cup {p} |-> IF q = p THEN data ELSE fs[q]]

RemoveFile(fs, p) == [q \in DOMAIN fs \ {p} |-> fs[q]]

write(w, c, data, offset, truncate) ==
    Try(w, path(w, c), LAMBDA filename :
        IF filename \notin DOMAIN w.files THEN Fail(w, "FileNotFoundError")
        ELSE update_size(
                 [w EXCEPT !.files[filename] =
                     WriteAt(IF truncate /\ offset # static_header_offset(w.chains[c].size)
                             THEN Truncate(@, offset) ELSE @,
                             data, offset)],
                 c))

(***************************************************************************)
(* Chain work.                                                             *)
(***************************************************************************)
\* work done by a single header under the given target
Work(target) == ((TWO_256 - target - 1) \div (target + 1)) + 1

chainwork_of_header_at_height(w, c, h) ==
    Bind(get_target(w, c, h, <<>>), LAMBDA target : Ok(Work(target)))

DropKeys(f, ks) == [k \in DOMAIN f \ ks |-> f[k]]

SetKey(f, k, v) == [x \in DOMAIN f \cup {k} |-> IF x = k THEN v ELSE f[x]]

\* the backward walk of get_chainwork: the cached boundary it stops at
RECURSIVE CachedHeight(_, _, _)
CachedHeight(w, c, cached_height) ==
    Bind(get_hash(w, c, cached_height), LAMBDA hash :
        IF hash \in DOMAIN w.cache THEN Ok(cached_height)
        ELSE IF cached_height <= 0 - 1 THEN Ok(cached_height)
        ELSE CachedHeight(w, c, cached_height - CHUNK_SIZE))

\* a forward walk that loses the total it started from
WalkKeepsNothing(w, c, cached_height, last_retarget, running_total) == Ret(w, 0)

\* the forward walk of get_chainwork, inserting one cache entry per chunk
RECURSIVE ForwardWalk(_, _, _, _, _)
ForwardWalk(w, c, cached_height, last_retarget, running_total) ==
    IF ~(cached_height < last_retarget)
    THEN Ret(w, running_total)
    ELSE Try(w, chainwork_of_header_at_height(w, c, cached_height + CHUNK_SIZE),
             LAMBDA work_in_single_header :
                Try(w, get_hash(w, c, cached_height + CHUNK_SIZE), LAMBDA hash :
                    ForwardWalk(
                        [w EXCEPT !.cache =
                            SetKey(@, hash,
                                   running_total + CHUNK_SIZE * work_in_single_header)],
                        c, cached_height + CHUNK_SIZE, last_retarget,
                        running_total + CHUNK_SIZE * work_in_single_header)))

LastRetarget(h) == (h \div CHUNK_SIZE) * CHUNK_SIZE - 1

get_chainwork_at(w, c, h) ==
    IF TESTNET THEN Ret(w, h)
    ELSE Try(w, CachedHeight(w, c, LastRetarget(h)), LAMBDA cached_height :
            IF ~(cached_height >= 0 - 1) THEN Fail(w, "AssertionError")
            ELSE Try(w, get_hash(w, c, cached_height), LAMBDA key :
                IF key \notin DOMAIN w.cache THEN Fail(w, "KeyError")
                ELSE Then(ForwardWalk(w, c, cached_height, LastRetarget(h), w.cache[key]),
                          LAMBDA fw :
                            Try(fw.w,
                                chainwork_of_header_at_height(
                                    fw.w, c, LastRetarget(h) + CHUNK_SIZE),
                                LAMBDA work_in_single_header :
                                    Ret(fw.w, fw.v + ((h % CHUNK_SIZE) + 1)
                                                         * work_in_single_header)))))

\* get_chainwork() with height=None
get_chainwork(w, c) == get_chainwork_at(w, c, Max(0, height(w, c)))

(***************************************************************************)
(* Reorganisation.                                                         *)
(***************************************************************************)
get_direct_children(w, c) ==
    {x \in DOMAIN w.blockchains : w.chains[w.blockchains[x]].parent = c}

\* the loop of get_parent_heights: (ancestor -> height of last common block)
RECURSIVE ParentWalk(_, _, _)
ParentWalk(w, chain, result) ==
    IF w.chains[chain].parent = 0 THEN result
    ELSE ParentWalk(w, w.chains[chain].parent,
                    SetKey(result, w.chains[chain].parent, w.chains[chain].forkpoint - 1))

get_parent_heights(w, c) == ParentWalk(w, c, [x \in {c} |-> height(w, c)])

MaxOf(S) == CHOOSE x \in S : \A y \in S : y <= x

\* the loop of get_height_of_last_common_block_with_chain
LastCommon(our_parents, their_parents) ==
    MaxOf({0} \cup {Min(our_parents[chain], their_parents[chain]) :
                       chain \in DOMAIN our_parents \cap DOMAIN their_parents})

get_height_of_last_common_block_with_chain(w, c, other_chain) ==
    LastCommon(get_parent_heights(w, c), get_parent_heights(w, other_chain))

\* f.read(n) from position pos
FileRead(f, pos, n) ==
    IF n < 0 - 1 THEN Raise("ValueError")
    ELSE IF n = 0 - 1 THEN Ok(Slice(f, pos, Len(f)))
    ELSE Ok(Slice(f, pos, pos + n))

\* a swap that leaves the registry as it was (what "update pointers" prevents)
PointersKept(w0, w, c, p) == Ret(w, TRUE)

\* "update pointers": the registry entries of the pair follow their new ids
SwapPointers(w0, w, c, p) ==
    Ret([w EXCEPT !.blockchains =
            SetKey(SetKey(DropKeys(@, {get_id(w0, c), get_id(w0, p)}), get_id(w, c), c),
                   get_id(w, p), p)],
        TRUE)

\* the end of _swap_with_parent: the parameters are exchanged, the child's
\* old file gets the parent's new name, the sizes and the registry follow
SwapParams(w0, w, c, p, child_old_name, parent_data) ==
    Let([w EXCEPT !.chains =
            [@ EXCEPT
                ![c] = [@ EXCEPT !.parent = w.chains[p].parent,
                                 !.forkpoint = w.chains[p].forkpoint,
                                 !.forkpoint_hash = w.chains[p].forkpoint_hash,
                                 !.prev_hash = w.chains[p].prev_hash],
                ![p] = [@ EXCEPT !.parent = c,
                                 !.forkpoint = w.chains[c].forkpoint,
                                 !.forkpoint_hash =
                                     hash_raw_header(
                                         Slice(parent_data, 0,
                                               get_header_size_height(
                                                   w.chains[c].forkpoint
                                                       + w.chains[p].size - 1))),
                                 !.prev_hash = w.chains[c].prev_hash]]],
        LAMBDA w3 :
            Try(w3, path(w3, p), LAMBDA new_name :
                Then(update_size(
                         [w3 EXCEPT !.files =
                             IF new_name = child_old_name THEN @
                             ELSE AddFile(RemoveFile(@, child_old_name), new_name,
                                          @[child_old_name])],
                         c),
                     LAMBDA w5 :
                        Then(update_size(w5.w, p), LAMBDA w6 :
                            SwapPointers(w0, w6.w, c, p)))))

\* the file exchange of _swap_with_parent
SwapFiles(w, c, p, child_old_name, parent_data, offset) ==
    Then(write(w, c, parent_data, 0, TRUE), LAMBDA w1 :
        Then(write(w1.w, p, w.files[child_old_name], offset, TRUE), LAMBDA w2 :
            SwapParams(w, w2.w, c, p, child_old_name, parent_data)))

\* _swap_with_parent after the chain-work comparison has decided to swap
SwapStep(w, c, p) ==
    Try(w, path(w, c), LAMBDA child_old_name :
        IF child_old_name \notin DOMAIN w.files THEN Fail(w, "FileNotFoundError")
        ELSE Try(w, path(w, p), LAMBDA parent_name :
            IF parent_name \notin DOMAIN w.files THEN Fail(w, "FileNotFoundError")
            ELSE IF ~(w.chains[c].forkpoint > w.chains[p].forkpoint)
            THEN Fail(w, "AssertionError")
            ELSE Try(w, FileRead(w.files[parent_name],
                                 static_header_offset(w.chains[c].forkpoint)
                                     - static_header_offset(w.chains[p].forkpoint),
                                 (height(w, p) - w.chains[c].forkpoint + 1)
                                     * get_header_size_height(w.chains[c].forkpoint)),
                     LAMBDA parent_data :
                        SwapFiles(w, c, p, child_old_name, parent_data,
                                  static_header_offset(w.chains[c].forkpoint)
                                      - static_header_offset(w.chains[p].forkpoint)))))

\* a step that never swaps, whatever the chain work
StepSkipped(w, c) == Ret(w, FALSE)

\* a step that reports a swap of a fork without moving it up
StepRepeated(w, c) == Ret(w, w.chains[c].parent # 0)

\* _swap_with_parent: returns True iff the chain was swapped with its parent
swap_with_parent_step(w, c) ==
    IF w.chains[c].parent = 0 THEN Ret(w, FALSE)
    ELSE Then(get_chainwork(w, w.chains[c].parent), LAMBDA pw :
            Then(get_chainwork(pw.w, c), LAMBDA cw :
                IF pw.v >= cw.v THEN Ret(cw.w, FALSE)
                ELSE SwapStep(cw.w, c, w.chains[c].parent)))

\* the former siblings that now branch off chain c get c as parent
Reparent(w, c, old_parent) ==
    [w EXCEPT !.chains =
        [i \in DOMAIN w.chains |->
            IF /\ \E k \in DOMAIN w.blockchains : w.blockchains[k] = i
               /\ w.chains[i].parent = old_parent
               /\ check_hash(w, c, w.chains[i].forkpoint - 1, w.chains[i].prev_hash)
            THEN [w.chains[i] EXCEPT !.parent = c]
            ELSE w.chains[i]]]

RECURSIVE SwapLoop(_, _, _)
SwapLoop(w, c, cnt) ==
    Then(swap_with_parent_step(w, c), LAMBDA r :
        IF ~r.v THEN Ret(Logged(r.w, "returned", c, r.w.chains[c].parent, r.w), 0)
        ELSE IF cnt + 1 > Cardinality(DOMAIN r.w.blockchains)
        THEN Fail(Logged(r.w, "swapped", c, w.chains[c].parent, w), "Exception")
        ELSE SwapLoop(Reparent(Logged(r.w, "swapped", c, w.chains[c].parent, w),
                               c, w.chains[c].parent),
                      c, cnt + 1))

swap_with_parent(w, c) == SwapLoop(w, c, 0)

(***************************************************************************)
(* Chain: saving, connecting, forking.                                     *)
(***************************************************************************)
\* a save that also takes a header for a height the chain already stores
SaveOverwriting(w, c, header) ==
    IF \/ size(w, c) < header.block_height - w.chains[c].forkpoint
       \/ header.block_height < w.chains[c].forkpoint
    THEN Fail(w, "AssertionError")
    ELSE Then(write(w, c, serialize_header(header),
                    static_header_offset(header.block_height)
                        - static_header_offset(w.chains[c].forkpoint),
                    TRUE),
              LAMBDA r : swap_with_parent(r.w, c))

save_header(w, c, header) ==
    IF size(w, c) # header.block_height - w.chains[c].forkpoint
    THEN Fail(w, "AssertionError")
    ELSE Then(write(w, c, serialize_header(header),
                    static_header_offset(header.block_height)
                        - static_header_offset(w.chains[c].forkpoint),
                    TRUE),
              LAMBDA r : swap_with_parent(r.w, c))

\* a save_chunk that cuts the file at the chunk whatever the chunk's index
SaveChunkTruncating(w, c, index, chunk, delta_bytes) ==
    Then(write(w, c,
               IF delta_bytes < 0 THEN Slice(chunk, 0 - delta_bytes, Len(chunk)) ELSE chunk,
               IF delta_bytes < 0 THEN 0 ELSE delta_bytes,
               TRUE),
         LAMBDA r : swap_with_parent(r.w, c))

\* the body of save_chunk on the chain that keeps the chunk; delta_bytes is
\* the position of the chunk relative to the chain's forkpoint
SaveChunkAt(w, c, index, chunk, delta_bytes) ==
    Then(write(w, c,
               IF delta_bytes < 0 THEN Slice(chunk, 0 - delta_bytes, Len(chunk)) ELSE chunk,
               IF delta_bytes < 0 THEN 0 ELSE delta_bytes,
               ~(index * CHUNK_SIZE < max_checkpoint)),
         LAMBDA r : swap_with_parent(r.w, c))

\* every chain keeps the chunks saved on it
KeeperSelf(w, c, index) == Ok(c)

\* the chain that keeps a chunk saved on chain c: chunks in the checkpoint
\* region are the responsibility of the 'main chain'
ChunkKeeper(w, c, index) ==
    IF index * CHUNK_SIZE < max_checkpoint /\ w.chains[c].parent # 0
    THEN IF GENESIS \notin DOMAIN w.blockchains THEN Raise("KeyError")
         ELSE IF w.chains[w.blockchains[GENESIS]].parent # 0 THEN Raise("RecursionError")
         ELSE Ok(w.blockchains[GENESIS])
    ELSE Ok(c)

save_chunk(w, c, index, chunk) ==
    IF ~(index >= 0) THEN Fail(w, "AssertionError")
    ELSE Try(w, ChunkKeeper(w, c, index), LAMBDA keeper :
            SaveChunkAt(w, keeper, index, chunk,
                        static_header_offset(index * CHUNK_SIZE)
                            - static_header_offset(w.chains[keeper].forkpoint)))

\* a can_connect that does not compare the previous hash
LinkUnchecked(prev_hash, header, target) == Ok(IsOk(prev_hash) /\ IsOk(target))

\* the end of can_connect, from the hash found at the height before the
\* header and the target required at the height of the header
ConnectsTo(prev_hash, header, target) ==
    IF ~IsOk(prev_hash) THEN Ok(FALSE)
    ELSE IF prev_hash.v # header.prev_block_hash THEN Ok(FALSE)
    ELSE IF target.exc = "MissingHeader" THEN Ok(FALSE)
    ELSE IF ~IsOk(target) THEN target
    ELSE Ok(IsOk(verify_header(header, prev_hash.v, target.v, NONE_HASH, FALSE)))

\* Ok(TRUE), Ok(FALSE) or the exception that leaves can_connect
can_connect(w, c, header, check_height, proof_was_provided) ==
    IF IsNone(header) THEN Ok(FALSE)
    ELSE IF proof_was_provided THEN Ok(TRUE)
    ELSE IF check_height /\ height(w, c) # header.block_height - 1 THEN Ok(FALSE)
    ELSE IF header.block_height = 0 THEN Ok(hash_header(header) = GENESIS)
    ELSE ConnectsTo(get_hash(w, c, header.block_height - 1), header,
                    get_target(w, c, header.block_height, <<>>))

\* a verify_chunk that expects no hash, whatever the chain holds
ExpectedNothing(r) == Ok(NONE_HASH)

\* expected_header_hash of verify_chunk: None when the header is missing
ExpectedHash(r) == IF r.exc = "MissingHeader" THEN Ok(NONE_HASH) ELSE r

\* the loop of verify_chunk from header i on; st carries the headers seen
\* so far and the hash of the last one
RECURSIVE VerifyWalk(_, _, _, _, _, _, _)
VerifyWalk(w, c, data, start_height, i, dataHandled, st) ==
    IF ~(dataHandled < Len(data)) THEN Ok(0)
    ELSE
    Bind(ExpectedHash(get_hash(w, c, start_height + i)), LAMBDA expected_header_hash :
     Let(get_header_size(Slice(data, dataHandled, dataHandled + PRE_ZEROCOIN_HEADER_SIZE)),
         LAMBDA headerSize :
      Bind(deserialize_header(Slice(data, dataHandled, dataHandled + headerSize),
                              start_height + i),
           LAMBDA header :
       Bind(get_target(w, c, start_height + i, Append(st.chain, header)), LAMBDA target :
        Bind(verify_header(header, st.prev_hash, target, expected_header_hash, FALSE),
             LAMBDA none :
                VerifyWalk(w, c, data, start_height, i + 1, dataHandled + headerSize,
                           [chain |-> Append(st.chain, header),
                            prev_hash |-> hash_header(header)]))))))

verify_chunk(w, c, index, data) ==
    Bind(get_hash(w, c, index * CHUNK_SIZE - 1), LAMBDA prev_hash :
        VerifyWalk(w, c, data, index * CHUNK_SIZE, 0, 0,
                   [chain |-> <<>>, prev_hash |-> prev_hash]))

\* what connect_chunk returns once save_chunk has ended
Connected(r) == Ret(r.w, IsOk(r))

\* a connect_chunk that saves the chunk without verifying it
SavedUnverified(w, c, idx, data, proof_was_provided) == Connected(save_chunk(w, c, idx, data))

\* returns True or False; every exception of the body becomes False
connect_chunk(w, c, idx, data, proof_was_provided) ==
    IF ~(idx >= 0) THEN Fail(w, "AssertionError")
    ELSE IF ~proof_was_provided /\ ~IsOk(verify_chunk(w, c, idx, data)) THEN Ret(w, FALSE)
    ELSE Connected(save_chunk(w, c, idx, data))

\* an instance nothing refers to is dropped (it is garbage)
DropUnreferenced(w, n) ==
    IF /\ n = Len(w.chains)
       /\ \A k \in DOMAIN w.blockchains : w.blockchains[k] # n
       /\ \A i \in DOMAIN w.chains : w.chains[i].parent # n
    THEN [w EXCEPT !.chains = SubSeq(w.chains, 1, n - 1)]
    ELSE w

\* the end of fork: the new chain is registered, unless save_header raised
ForkSaved(r, self) ==
    IF ~IsOk(r) THEN Fail(DropUnreferenced(r.w, self), r.exc)
    ELSE Ret([r.w EXCEPT !.blockchains = SetKey(@, get_id(r.w, self), self)], self)

\* fork once the instance has been constructed: its file is created empty
\* and the header saved
ForkConstructed(w, r, self, header) ==
    IF ~IsOk(r) THEN Fail(w, r.exc)
    ELSE ForkSaved(
             save_header([r.w EXCEPT !.files = AddFile(@, path(r.w, self).v, <<>>)],
                         self, header),
             self)

\* a fork whose constructor accepts any forkpoint
ForkAnywhere(w, parent, header) ==
    Try(w, can_connect(w, parent, header, FALSE, FALSE), LAMBDA connects :
        IF ~connects THEN Fail(w, "Exception")
        ELSE Try(w, get_hash(w, parent, header.block_height - 1), LAMBDA prev_hash :
            ForkConstructed(
                w,
                update_size(
                    [w EXCEPT !.chains =
                        Append(@, [forkpoint |-> header.block_height,
                                   parent |-> parent,
                                   forkpoint_hash |-> hash_header(header),
                                   prev_hash |-> prev_hash,
                                   size |-> 0])],
                    Len(w.chains) + 1),
                Len(w.chains) + 1, header)))

fork(w, parent, header) ==
    Try(w, can_connect(w, parent, header, FALSE, FALSE), LAMBDA connects :
        IF ~connects THEN Fail(w, "Exception")
        ELSE Try(w, get_hash(w, parent, header.block_height - 1), LAMBDA prev_hash :
            \* Blockchain.__init__
            IF 0 < header.block_height /\ header.block_height <= max_checkpoint
            THEN Fail(w, "Exception")
            ELSE ForkConstructed(
                     w,
                     update_size(
                         [w EXCEPT !.chains =
                             Append(@, [forkpoint |-> header.block_height,
                                        parent |-> parent,
                                        forkpoint_hash |-> hash_header(header),
                                        prev_hash |-> prev_hash,
                                        size |-> 0])],
                         Len(w.chains) + 1),
                     Len(w.chains) + 1, header)))

(***************************************************************************)
(* Inputs: the headers and chunks the network collaborator hands over.     *)
(***************************************************************************)
\* seconds between an offered header and the header before it
Deltas == {60, 600}
AccCheckPointAt(h) ==
    IF h >= HEADER_V7_BLOCKS THEN <<1, 0, 0, h>>
    ELSE IF h >= PRE_ZEROCOIN_BLOCKS THEN <<1, 0, h>>
    ELSE <<>>

\* a header for height h after the header with the given hash and time;
\* kind says what is wrong with it, if anything: "badprev" does not link,
\* "badbits" carries bits outside the compact range, "wrongbits" bits other
\* than the required ones, "badpow" a hash above the target
HeaderWith(h, prev_hash, prev_ts, dt, kind, target) ==
    [version |-> VersionAt(h),
     prev_block_hash |-> IF kind = "badprev" THEN <<1, 1, 1>> ELSE prev_hash,
     merkle_root |-> <<0, 0, 1>>,
     timestamp |-> IF h = 0 THEN GenesisTime ELSE prev_ts + dt,
     bits |-> IF kind = "badbits" THEN 0
              ELSE IF kind = "wrongbits" THEN target_to_bits(MAX_TARGET \div BYTE)
              ELSE target_to_bits(IF IsOk(target) THEN target.v ELSE MIN_POW),
     nonce |-> IF kind = "badpow" THEN TWO_256 - 1 ELSE 0,
     block_height |-> h,
     acc_check_point |-> AccCheckPointAt(h)]

\* its bits are the ones chain c requires after the headers of `chain`
OfferedHeader(w, c, chain, h, prev_hash, prev_ts, dt, kind) ==
    HeaderWith(h, prev_hash, prev_ts, dt, kind, get_target(w, c, h, chain))

OrElse(r, d) == IF IsOk(r) THEN r.v ELSE d

TimeOf(r) == IF IsOk(r) /\ ~IsNone(r.v) THEN r.v.timestamp ELSE GenesisTime

\* a header for height h on top of what chain c holds below h
HeaderOn(w, c, h, dt, kind) ==
    OfferedHeader(w, c, <<>>, h, OrElse(get_hash(w, c, h - 1), ZERO_HASH),
                  TimeOf(read_header(w, c, h - 1)), dt, kind)

\* the bytes of headers i..k of a run of k consecutive headers on top of
\* chain c, the i-th at height h; the last one is of the given kind, the
\* others are good; st carries the headers made so far
RECURSIVE GenChunk(_, _, _, _, _, _, _, _)
GenChunk(w, c, h, k, st, dt, kind, i) ==
    IF i > k THEN <<>>
    ELSE Let(OfferedHeader(w, c, st.chain, h, st.prev_hash, st.prev_ts, dt,
                           IF i = k THEN kind ELSE "good"),
             LAMBDA hd :
                serialize_header(hd)
                \o GenChunk(w, c, h + 1, k,
                            [chain |-> Append(st.chain, hd),
                             prev_hash |-> hash_header(hd),
                             prev_ts |-> hd.timestamp],
                            dt, kind, i + 1))

\* k headers from the start of chunk `index` on top of chain c
ChunkOn(w, c, index, k, dt, kind) ==
    GenChunk(w, c, index * CHUNK_SIZE, k,
             [chain |-> <<>>,
              prev_hash |-> OrElse(get_hash(w, c, index * CHUNK_SIZE - 1), ZERO_HASH),
              prev_ts |-> TimeOf(read_header(w, c, index * CHUNK_SIZE - 1))],
             dt, kind, 1)

(***************************************************************************)
(* Initial state: read_blockchains on a headers file that is empty or      *)
(* holds the first InitHeaders - 1 or InitHeaders headers of the chain,    *)
(* and no fork files.                                                      *)
(***************************************************************************)
EmptyWorld ==
    [chains |-> <<[forkpoint |-> 0, parent |-> 0, forkpoint_hash |-> GENESIS,
                   prev_hash |-> NONE_HASH, size |-> 0]>>,
     files |-> [q \in {RootPath} |-> <<>>],
     blockchains |-> [k \in {GENESIS} |-> 1],
     cache |-> [k \in {ZERO_HASH} |-> 0],
     log |-> <<>>]

InitRootData(n) ==
    GenChunk(EmptyWorld, 1, 0, n,
             [chain |-> <<>>, prev_hash |-> ZERO_HASH, prev_ts |-> GenesisTime],
             DGW_TARGET_SPACING, "good", 1)

\* the state read_blockchains leaves when the headers file holds n headers
InitWorld(n) == update_size([EmptyWorld EXCEPT !.files[RootPath] = InitRootData(n)], 1).w

Init ==
    /\ TESTNET = FALSE
    /\ CHECKPOINTS \in {0, 1}
    /\ \E n \in {0, InitHeaders - 1, InitHeaders} :
          /\ chains = InitWorld(n).chains
          /\ files = InitWorld(n).files
    /\ blockchains = EmptyWorld.blockchains
    /\ cache = EmptyWorld.cache
    /\ last = [op |-> "read_blockchains", exc |-> "ok"]
    /\ ops = 0
    /\ log = <<>>
    /\ call = NoCall

\* the instances the registry holds
Registered == {blockchains[k] : k \in DOMAIN blockchains}

\* the states in which operations are called: the budget is not used up
OpsLeft == ops < MaxOps

\* an operation ends: the state it left becomes the state; an operation
\* that changed nothing leaves no trace
Commit(r, op) ==
    /\ OpsLeft
    /\ chains' = r.w.chains
    /\ files' = r.w.files
    /\ blockchains' = r.w.blockchains
    /\ cache' = r.w.cache
    /\ ops' = IF Snapshot(r.w) = Snapshot(World) THEN ops ELSE ops + 1
    /\ last' = IF Snapshot(r.w) = Snapshot(World) THEN last ELSE [op |-> op, exc |-> r.exc]
    /\ log' = IF Snapshot(r.w) = Snapshot(World) THEN log ELSE r.w.log
    /\ UNCHANGED <<TESTNET, CHECKPOINTS, call>>

\* connect_chunk reports failure by returning False
Returned(r) == [r EXCEPT !.exc = IF r.exc = "ok" /\ r.v = FALSE THEN "False" ELSE @]

(***************************************************************************)
(* Actions: one per public operation.                                      *)
(***************************************************************************)
SaveHeader(c, h, dt, kind) ==
    Commit(save_header(World, c, HeaderOn(World, c, h, dt, kind)), "save_header")

Fork(parent, h, dt, kind) ==
    /\ Len(chains) < MaxInst
    /\ Commit(fork(World, parent, HeaderOn(World, parent, h, dt, kind)), "fork")

ConnectChunk(c, index, k, dt, kind, proof) ==
    Commit(Returned(connect_chunk(World, c, index, ChunkOn(World, c, index, k, dt, kind),
                                  proof)),
           "connect_chunk")

\* a predicate: it reads only, and its answer goes to the caller
CanConnect(c, h, kind, check_height) ==
    Commit(Ret(World, can_connect(World, c, HeaderOn(World, c, h, DGW_TARGET_SPACING, kind),
                                  check_height, FALSE)),
           "can_connect")

SwapWithParent(c) ==
    Commit(swap_with_parent(World, c), "swap_with_parent")

GetChainwork(c, h) ==
    Commit(get_chainwork_at(World, c, h), "get_chainwork")

\* a query: it reads only, and its answer goes to the caller
GetHeightOfLastCommonBlock(c, other_chain) ==
    Commit(Ret(World, get_height_of_last_common_block_with_chain(World, c, other_chain)),
           "get_height_of_last_common_block_with_chain")

\* heights a header may be offered for on chain c: every height the chain
\* could connect it at, and one beyond
OfferHeights(c) == 0..Min(height(World, c) + 2, MaxHeight)

\* chunks offered: a whole chunk, or the first header of one; an unproven
\* chunk is good or has a last header that does not link, a proven chunk is
\* whole and stored as it comes, whatever its last header carries
ChunkInputs ==
    {x \in [index : 0..(MaxHeight \div CHUNK_SIZE), k : {1, CHUNK_SIZE},
            kind : {"good", "badprev", "badbits", "wrongbits"}, proof : BOOLEAN] :
        /\ x.index * CHUNK_SIZE + x.k - 1 <= MaxHeight
        /\ x.proof <=> x.kind \in {"badbits", "wrongbits"}
        /\ x.proof => x.k = CHUNK_SIZE}

Next ==
    \/ \E c \in Registered :
          \E h \in {height(World, c) + 1, height(World, c) + 2} \cap 0..MaxHeight :
             SaveHeader(c, h, DGW_TARGET_SPACING, "good")
    \/ \E c \in Registered, dt \in Deltas, kind \in {"good", "badprev"} :
          \E h \in OfferHeights(c) : Fork(c, h, dt, kind)
    \/ \E c \in Registered, x \in ChunkInputs :
          ConnectChunk(c, x.index, x.k, DGW_TARGET_SPACING, x.kind, x.proof)
    \/ \E c \in Registered : SwapWithParent(c)
    \/ \E c \in Registered, kind \in {"good", "badprev"}, check_height \in BOOLEAN :
          \E h \in OfferHeights(c) : CanConnect(c, h, kind, check_height)
    \/ \E c \in Registered, h \in 0..MaxHeight : h <= height(World, c) /\ GetChainwork(c, h)
    \/ \E c \in Registered, other_chain \in Registered :
          GetHeightOfLastCommonBlock(c, other_chain)

Spec == Init /\ [][Next]_vars


(***************************************************************************)
(* Properties of the reorganisation.                                       *)
(***************************************************************************)
\* the entries of the log that record a swap of a chain with its parent
SwapEvents == {i \in DOMAIN log : log[i].ev = "swapped"}

\* the heights the swapped pair of entry e owned before the swap
OwnedHeights(e) ==
    e.before.chains[e.p].forkpoint .. Max(height(e.before, e.c), height(e.before, e.p))

\* an answer given before is given again after
SameHashAfter(b, a) == IsOk(b) => IsOk(a) /\ a.v = b.v

\* C1: a swap step that returned True preserves every stored header: at every
\* height the child or the parent owned before the swap, the hash each of the
\* two instances could answer before is the hash it answers after.
C1_SwapKeepsHashes ==
    \A i \in SwapEvents : \A h \in OwnedHeights(log[i]) : \A x \in {log[i].c, log[i].p} :
        SameHashAfter(get_hash(log[i].before, x, h), get_hash(log[i].after, x, h))


\* the registered chains that have no parent
Roots == {c \in Registered : chains[c].parent = 0}

\* C2: in every state reached from read_blockchains through fork,
\* save_header, save_chunk and swap_with_parent, the registry holds exactly
\* one chain without parent, it is the entry under the genesis hash (the one
\* get_best_chain returns), and its forkpoint is 0.
C2_OneRootAtGenesis ==
    /\ Cardinality(Roots) = 1
    /\ GENESIS \in DOMAIN blockchains
    /\ blockchains[GENESIS] \in Roots
    /\ chains[blockchains[GENESIS]].forkpoint = 0

\* a fork has outgrown the root and been swapped with it: the root is another
\* instance than the one read_blockchains created
C2_Witness ==
    /\ SwapEvents # {}
    /\ Cardinality(Registered) >= 2
    /\ blockchains[GENESIS] # 1
    /\ chains[1].parent # 0


\* the entries of the log that record a normal return of swap_with_parent
ReturnEvents == {i \in DOMAIN log : log[i].ev = "returned"}

AtLeast(v, cw) == IsOk(cw) /\ v >= cw.v

\* parent.get_chainwork() >= self.get_chainwork(), the parent's work being pw
ParentWorkAtLeast(pw, c) == IsOk(pw) /\ AtLeast(pw.v, get_chainwork(pw.w, c))

\* in state w chain c is the root or has at most the chain work of its parent
ParentOutworks(w, c) ==
    w.chains[c].parent = 0 \/ ParentWorkAtLeast(get_chainwork(w, w.chains[c].parent), c)

ReturnsOutworked(r, c) == IsOk(r) => ParentOutworks(r.w, c)

\* C3: whenever swap_with_parent returns normally on a chain, the chain has
\* no parent or its parent's chain work is at least its own: inside
\* save_header, save_chunk and fork (the returns the log records) and when
\* called on any registered chain in any reachable state.
C3_SwapUntilOutworked ==
    /\ \A i \in ReturnEvents : ParentOutworks(log[i].after, log[i].c)
    /\ OpsLeft => \A c \in Registered : ReturnsOutworked(swap_with_parent(World, c), c)

\* a header was saved on a fork and swap_with_parent returned with the fork
\* still a fork, its parent having at least its chain work
C3_Witness ==
    /\ last.op = "save_header"
    /\ \E i \in ReturnEvents :
          /\ log[i].after.chains[log[i].c].parent # 0
          /\ ParentOutworks(log[i].after, log[i].c)


(***************************************************************************)
(* Properties of chunk and header acceptance.                              *)
(***************************************************************************)
\* chunks whose last header has a defect: it does not link ("badprev"), its
\* bits are not the required ones ("badbits"), its hash is above the target
\* at a proof-of-work height ("badpow"), or its record is cut ("short")
BadChunkInputs ==
    {x \in [index : 0..(MaxHeight \div CHUNK_SIZE), k : 1..CHUNK_SIZE,
            kind : {"badprev", "badbits", "badpow", "short"}] :
        /\ x.index * CHUNK_SIZE + x.k - 1 <= MaxHeight
        /\ x.kind = "badpow" => x.index * CHUNK_SIZE + x.k - 1 <= LAST_POW_BLOCK}

AllButLastWord(d) == Slice(d, 0, Len(d) - 1)

\* the bytes of chunk x on top of chain c
BadChunkOn(c, x) ==
    IF x.kind = "short"
    THEN AllButLastWord(ChunkOn(World, c, x.index, x.k, DGW_TARGET_SPACING, "good"))
    ELSE ChunkOn(World, c, x.index, x.k, DGW_TARGET_SPACING, x.kind)

\* the headers of chunk x before the one with the defect
GoodPrefixOn(c, x) == ChunkOn(World, c, x.index, x.k - 1, DGW_TARGET_SPACING, "good")

\* connect_chunk returned False and left the state as it was
Rejected(r) == IsOk(r) /\ r.v = FALSE /\ Snapshot(r.w) = Snapshot(World)

\* verify_chunk raises on the chunk, and connect_chunk rejects it
BadChunkRejected(c, x, data) ==
    /\ ~IsOk(verify_chunk(World, c, x.index, data))
    /\ Rejected(connect_chunk(World, c, x.index, data, FALSE))

\* C4: chunk verification is all-or-nothing: when a header of a chunk given
\* to connect_chunk without proof fails verify_header or deserialization,
\* verify_chunk raises at that header, connect_chunk returns False and no
\* chain's byte store, size, forkpoint, parent or registry entry changes;
\* in every state in which an operation can be called, for every registered
\* chain and every chunk with a defect in its last header.
C4_ChunkAllOrNothing ==
    OpsLeft =>
        \A c \in Registered : \A x \in BadChunkInputs :
            BadChunkRejected(c, x, BadChunkOn(c, x))

\* a whole chunk whose first header the chain accepts and whose second does
\* not link was offered and rejected
C4_Witness ==
    OpsLeft /\ \E c \in Registered : \E x \in BadChunkInputs :
        /\ x.k = CHUNK_SIZE
        /\ x.kind = "badprev"
        /\ IsOk(verify_chunk(World, c, x.index, GoodPrefixOn(c, x)))
        /\ Rejected(connect_chunk(World, c, x.index, BadChunkOn(c, x), FALSE))


\* the headers can_connect is asked about: for every height up to two beyond
\* the tip, one that links to what the chain holds and one that does not
ConnectInputs == [h : 0..MaxHeight, kind : {"good", "badprev"}, check_height : BOOLEAN]

\* C5: can_connect is a predicate that never raises: for every header and
\* every state of the chain (a missing, all-zero or malformed stored header
\* below the offered one, stored bits outside the compact range) it returns
\* True or False.
C5_CanConnectNeverRaises ==
    OpsLeft =>
        \A c \in Registered : \A x \in ConnectInputs :
            IsOk(can_connect(World, c, HeaderOn(World, c, x.h, DGW_TARGET_SPACING, x.kind),
                             x.check_height, FALSE))


\* targets a caller may hand to verify_header
TargetSamples == {0, 1, bnTargetLimit, MAX_TARGET, MIN_POW}

\* header does not link to prev_hash, the hash the chain answers below it:
\* can_connect returns False and verify_header raises under every target
Unlinked(c, header, prev_hash, connects) ==
    (IsOk(prev_hash) /\ prev_hash.v # header.prev_block_hash) =>
        /\ connects = Ok(FALSE)
        /\ \A target \in TargetSamples :
              ~IsOk(verify_header(header, prev_hash.v, target, NONE_HASH, FALSE))

UnlinkedRejected(c, header, check_height) ==
    Unlinked(c, header, get_hash(World, c, header.block_height - 1),
             can_connect(World, c, header, check_height, FALSE))

\* C6: a header whose prev_block_hash differs from the chain's hash at the
\* height below it is never accepted without proof: can_connect returns
\* False and verify_header fails, for every chain, every height >= 1 and
\* every target.
C6_UnlinkedNeverAccepted ==
    OpsLeft =>
        \A c \in Registered : \A h \in 1..MaxHeight : \A check_height \in BOOLEAN :
            UnlinkedRejected(c, HeaderOn(World, c, h, DGW_TARGET_SPACING, "badprev"),
                             check_height)

\* the chain holds the genesis header only; the header for height 1 that
\* links to it connects, the one that does not is rejected
C6_Witness ==
    /\ OpsLeft
    /\ Len(chains) = 1
    /\ height(World, 1) = 0
    /\ can_connect(World, 1, HeaderOn(World, 1, 1, DGW_TARGET_SPACING, "good"), TRUE, FALSE)
           = Ok(TRUE)
    /\ HeaderOn(World, 1, 1, DGW_TARGET_SPACING, "badprev").prev_block_hash # GENESIS
    /\ can_connect(World, 1, HeaderOn(World, 1, 1, DGW_TARGET_SPACING, "badprev"), TRUE, FALSE)
           = Ok(FALSE)


(***************************************************************************)
(* Properties of the chains' stores.                                       *)
(***************************************************************************)
\* number of whole records in len bytes that start with the record of height h
RECURSIVE CountRecords(_, _)
CountRecords(len, h) ==
    IF len >= get_header_size_height(h)
    THEN 1 + CountRecords(len - get_header_size_height(h), h + 1)
    ELSE 0

\* number of headers present in the file named name of a chain forked at h
RecordsIn(fs, name, h) ==
    IF IsOk(name) /\ name.v \in DOMAIN fs THEN CountRecords(Len(fs[name.v]), h) ELSE 0

\* number of headers present in the byte store of chain c
HeadersStored(w, c) == RecordsIn(w.files, path(w, c), w.chains[c].forkpoint)

\* C7: after every completed operation, whether it returned or raised, every
\* registered chain has height() = forkpoint + size() - 1, and size() is the
\* number of headers present in the chain's byte store.
C7_SizeIsHeadersStored ==
    \A c \in Registered :
        /\ height(World, c) = chains[c].forkpoint + size(World, c) - 1
        /\ size(World, c) = HeadersStored(World, c)


\* bytes before the record of height h in a file that starts at height from
RECURSIVE BytesBefore(_, _)
BytesBefore(from, h) ==
    IF h <= from THEN 0 ELSE BytesBefore(from, h - 1) + get_header_size_height(h - 1)

\* the record of height h cut out of the file f of a chain forked at `from`
RecordAt(f, from, h) ==
    SubSeq(f, BytesBefore(from, h) + 1,
           Min(BytesBefore(from, h) + get_header_size_height(h), Len(f)))

\* what the byte store of chain c holds at height h
OwnRecord(w, c, h) ==
    Bind(path(w, c), LAMBDA name :
        IF name \notin DOMAIN w.files THEN Raise("FileNotFoundError")
        ELSE HeaderOfBytes(RecordAt(w.files[name], w.chains[c].forkpoint, h),
                           get_header_size_height(h), h))

\* two calls ended the same way, with the same header if they returned one
SameAnswer(a, b) ==
    /\ a.exc = b.exc
    /\ IsOk(a) => /\ IsNone(a.v) = IsNone(b.v)
                  /\ ~IsNone(a.v) => a.v = b.v

\* the registered chains that have a parent
Forks == {c \in Registered : chains[c].parent # 0}

\* C8: in every state reached through forks and swaps, a chain with a parent
\* answers read_header(h) for 0 <= h < forkpoint as its parent does, and for
\* forkpoint <= h <= height() from its own byte store.
C8_ReadHeaderDelegates ==
    \A c \in Forks :
        /\ \A h \in 0..(chains[c].forkpoint - 1) :
              SameAnswer(read_header(World, c, h), read_header(World, chains[c].parent, h))
        /\ \A h \in chains[c].forkpoint..height(World, c) :
              SameAnswer(read_header(World, c, h), OwnRecord(World, c, h))

\* after a swap, a fork that holds a header of its own at its forkpoint and
\* answers the height below it with a header of its parent
C8_Witness ==
    /\ SwapEvents # {}
    /\ \E c \in Forks :
          /\ chains[c].size >= 1
          /\ IsOk(read_header(World, c, chains[c].forkpoint))
          /\ ~IsNone(read_header(World, c, chains[c].forkpoint).v)
          /\ IsOk(read_header(World, c, chains[c].forkpoint - 1))
          /\ ~IsNone(read_header(World, c, chains[c].forkpoint - 1).v)

\* a <= the integer get_chainwork answered with
NotAbove(a, r) == IsOk(r) => a <= r.v

\* a >= the integer get_chainwork answered with
NotBelow(a, r) == IsOk(r) => a >= r.v

\* get_chainwork(h1) answered r1; get_chainwork(h2) is called next
LowerThenHigher(r1, c, h2) == IsOk(r1) => NotAbove(r1.v, get_chainwork_at(r1.w, c, h2))

\* get_chainwork(h2) answered r2; get_chainwork(h1) is called next
HigherThenLower(r2, c, h1) == IsOk(r2) => NotBelow(r2.v, get_chainwork_at(r2.w, c, h1))

\* the world with a cache that holds the sentinel entry only
SentinelOnly(w) == [w EXCEPT !.cache = EmptyWorld.cache]

StrictlyMore(r1, c, h2) ==
    /\ IsOk(r1)
    /\ IsOk(get_chainwork_at(r1.w, c, h2))
    /\ r1.v < get_chainwork_at(r1.w, c, h2).v

SameInteger(a, b) == IsOk(a) /\ IsOk(b) => a.v = b.v

\* C10: the value of get_chainwork does not depend on the cache contents: in
\* every state, whose cache earlier get_chainwork calls of any chain have
\* populated, get_chainwork(h) of every registered chain answers with the
\* integer it answers with over the same stored headers when the cache holds
\* the sentinel only.
C10_CacheIndependent ==
    \A c \in Registered : \A h \in 0..MaxHeight :
        h <= height(World, c) =>
            SameInteger(get_chainwork_at(World, c, h),
                        get_chainwork_at(SentinelOnly(World), c, h))

(***************************************************************************)
(* A headers file of synthetic headers: after the genesis header every     *)
(* header carries the bits of one target and follows its predecessor at    *)
(* one spacing.                                                            *)
(***************************************************************************)
\* headers in the synthetic headers file
SynthHeaders == 7

\* targets the synthetic headers carry in their bits
SynthTargets == {bnTargetLimit \div 4, bnTargetLimit \div 2, bnTargetLimit, MIN_POW}

\* the bytes of the synthetic headers at heights h..n-1
RECURSIVE ConstBitsHeaders(_, _, _, _, _, _)
ConstBitsHeaders(h, n, prev_hash, prev_ts, dt, t) ==
    IF h >= n THEN <<>>
    ELSE Let(HeaderWith(h, prev_hash, prev_ts, dt, "good", Ok(t)), LAMBDA hd :
            serialize_header(hd)
            \o ConstBitsHeaders(h + 1, n, hash_header(hd), hd.timestamp, dt, t))

\* the state read_blockchains leaves on a headers file of n synthetic headers
SynthWorld(n, dt, t) ==
    update_size([EmptyWorld EXCEPT !.files[RootPath] =
                    serialize_header(GenesisHeader)
                    \o ConstBitsHeaders(1, n, GENESIS, GenesisTime, dt, t)], 1).w

InitConstBits ==
    /\ TESTNET = FALSE
    /\ CHECKPOINTS \in {0, 1}
    /\ \E n \in {SynthHeaders - 1, SynthHeaders}, dt \in Deltas, t \in SynthTargets :
          /\ chains = SynthWorld(n, dt, t).chains
          /\ files = SynthWorld(n, dt, t).files
    /\ blockchains = EmptyWorld.blockchains
    /\ cache = EmptyWorld.cache
    /\ last = [op |-> "read_blockchains", exc |-> "ok"]
    /\ ops = 0
    /\ log = <<>>
    /\ call = NoCall

NextConstBits ==
    \E h \in 0..(SynthHeaders - 1) : h <= height(World, 1) /\ GetChainwork(1, h)

SpecConstBits == InitConstBits /\ [][NextConstBits]_vars

\* the chunks whose last header takes its target from the header before it;
\* with the program's constants (2016, 1001) these are all chunks
PosChunks(w, c) ==
    {k \in 0..(height(w, c) \div CHUNK_SIZE) :
        /\ CHUNK_SIZE * k + CHUNK_SIZE - 1 <= height(w, c)
        /\ CHUNK_SIZE * k + CHUNK_SIZE - 2 > LAST_POW_BLOCK}

\* chain c stores a header with the given bits at height h
CarriesBits(r, bits) == IsOk(r) /\ ~IsNone(r.v) /\ r.v.bits = bits

\* all headers of chunk k of chain c carry the given bits
ConstBitsChunk(w, c, k, bits) ==
    \A h \in (CHUNK_SIZE * k)..(CHUNK_SIZE * k + CHUNK_SIZE - 1) :
        CarriesBits(read_header(w, c, h), bits)

BitsAt(r) == IF IsOk(r) /\ ~IsNone(r.v) THEN r.v.bits ELSE 0

\* get_chainwork just before the chunk answered r0; get_chainwork at the
\* chunk's last header, called next, answers with r0 plus the chunk's work
ChunkDeltaIs(r0, c, lastH, target) ==
    IsOk(r0) /\ IsOk(target) =>
        SameInteger(get_chainwork_at(r0.w, c, lastH),
                    Ok(r0.v + CHUNK_SIZE * Work(target.v)))

\* C11: for a chunk of CHUNK_SIZE consecutive stored headers that all carry
\* the same bits b, the chainwork at the chunk's last header minus the
\* chainwork just before the chunk's first header is
\* CHUNK_SIZE * work(bits_to_target(b)).
C11_ConstBitsChunkWork ==
    \A k \in PosChunks(World, 1) :
        ConstBitsChunk(World, 1, k, BitsAt(read_header(World, 1, CHUNK_SIZE * k))) =>
            ChunkDeltaIs(get_chainwork_at(World, 1, CHUNK_SIZE * k - 1), 1,
                         CHUNK_SIZE * k + CHUNK_SIZE - 1,
                         bits_to_target(BitsAt(read_header(World, 1, CHUNK_SIZE * k))))

SameHashAt(ra, rb) == IsOk(ra) /\ IsOk(rb) /\ ra.v = rb.v

\* the heights at which chains a and b answer get_hash with the same hash
CommonHeights(w, a, b) ==
    {h \in 0..MaxHeight : SameHashAt(get_hash(w, a, h), get_hash(w, b, h))}

\* C12: for any two registered chains A and B,
\* A.get_height_of_last_common_block_with_chain(B) is the greatest height h
\* at which A.get_hash(h) = B.get_hash(h).
C12_LastCommonBlock ==
    \A a, b \in Registered :
        get_height_of_last_common_block_with_chain(World, a, b)
            = MaxOf(CommonHeights(World, a, b))

(***************************************************************************)
(* Module-level functions that touch no state: each call is drawn with its *)
(* arguments by the initial state and run by one step.                     *)
(***************************************************************************)
\* longest merkle branch handed to root_from_proof
MaxBranch == 2

\* the hashes a proof is made of
ProofHashes == {GENESIS, ZERO_HASH}

ProofInputs ==
    [hash : ProofHashes,
     branch : UNION {[1..n -> ProofHashes] : n \in 0..MaxBranch},
     index : (0 - 1)..(2 ^ MaxBranch)]

\* a fold over the branch that does not look at what is left of the index
RECURSIVE FoldUnchecked(_, _, _, _)
FoldUnchecked(hash, branch, index, i) ==
    IF i > Len(branch) THEN Ok(hash)
    ELSE FoldUnchecked(IF index % 2 = 1 THEN sha256d(branch[i] \o hash)
                       ELSE sha256d(hash \o branch[i]),
                       branch, index \div 2, i + 1)

\* the loop of root_from_proof from the i-th element of the branch on, and
\* the check after it
RECURSIVE FoldProof(_, _, _, _)
FoldProof(hash, branch, index, i) ==
    IF i > Len(branch)
    THEN IF index # 0 THEN Raise("ValueError") ELSE Ok(hash)
    ELSE FoldProof(IF index % 2 = 1 THEN sha256d(branch[i] \o hash)
                   ELSE sha256d(hash \o branch[i]),
                   branch, index \div 2, i + 1)

root_from_proof(hash, branch, index) == FoldProof(hash, branch, index, 1)

\* raw headers: the fixed fields, alone or followed by the words of an
\* accumulator checkpoint of either size
RawHeaders ==
    {<<v>> \o p \o <<4, 5, 6>> \o <<GenesisTime, b, n>> \o a :
        v \in {1, ZEROCOIN_BLOCK_VERSION, V7_BLOCK_VERSION},
        p \in {ZERO_HASH, <<1, 2, 3>>},
        b \in {0, target_to_bits(MAX_TARGET)},
        n \in {0, 9},
        a \in {<<>>, [i \in 1..(ZEROCOIN_HEADER_SIZE - PRE_ZEROCOIN_HEADER_SIZE) |-> 6 + i],
               [i \in 1..(HEADER_V7_SIZE - PRE_ZEROCOIN_HEADER_SIZE) |-> 6 + i]}}

CodecInputs == [s : RawHeaders, height : 0..MaxHeight]

PendingCalls ==
    {[op |-> "root_from_proof", args |-> x, done |-> FALSE, result |-> Raise("pending")] :
        x \in ProofInputs}
    \cup
    {[op |-> "deserialize_header", args |-> x, done |-> FALSE, result |-> Raise("pending")] :
        x \in CodecInputs}

InitCalls ==
    /\ TESTNET = FALSE
    /\ CHECKPOINTS = 0
    /\ chains = EmptyWorld.chains
    /\ files = EmptyWorld.files
    /\ blockchains = EmptyWorld.blockchains
    /\ cache = EmptyWorld.cache
    /\ last = [op |-> "read_blockchains", exc |-> "ok"]
    /\ ops = 0
    /\ log = <<>>
    /\ call \in PendingCalls

Returns(result) ==
    /\ ~call.done
    /\ call' = [call EXCEPT !.done = TRUE, !.result = result]
    /\ UNCHANGED <<chains, files, blockchains, cache, TESTNET, CHECKPOINTS, last, ops, log>>

RootFromProof ==
    /\ call.op = "root_from_proof"
    /\ Returns(root_from_proof(call.args.hash, call.args.branch, call.args.index))

DeserializeHeader ==
    /\ call.op = "deserialize_header"
    /\ Returns(deserialize_header(call.args.s, call.args.height))

NextCalls ==
    \/ RootFromProof
    \/ DeserializeHeader

SpecCalls == InitCalls /\ [][NextCalls]_vars

\* bit i (from 0) of the index
BitOf(index, i) == (index \div (2 ^ i)) % 2

\* the left fold over the first n elements of the branch
RECURSIVE FoldLeft(_, _, _, _)
FoldLeft(hash, branch, index, n) ==
    IF n = 0 THEN hash
    ELSE IF BitOf(index, n - 1) = 1
         THEN sha256d(branch[n] \o FoldLeft(hash, branch, index, n - 1))
         ELSE sha256d(FoldLeft(hash, branch, index, n - 1) \o branch[n])

Ran(op) == call.op = op /\ call.done

\* C13: root_from_proof(leaf, branch, index) returns the left fold over the
\* branch, combining H(sibling || running) where the current lowest bit of
\* the index is 1 and H(running || sibling) otherwise, exactly when
\* 0 <= index < 2^len(branch), and fails with an out-of-range error for
\* every other index; with an empty branch and index 0 it returns the leaf.
C13_RootFromProof ==
    Ran("root_from_proof") =>
        /\ IF 0 <= call.args.index /\ call.args.index < 2 ^ Len(call.args.branch)
           THEN call.result = Ok(FoldLeft(call.args.hash, call.args.branch,
                                          call.args.index, Len(call.args.branch)))
           ELSE call.result.exc = "ValueError"
        /\ call.args.branch = <<>> /\ call.args.index = 0 =>
              call.result = Ok(call.args.hash)

\* a proof of full length whose index takes both branches of the fold
C13_Witness ==
    /\ Ran("root_from_proof")
    /\ Len(call.args.branch) = MaxBranch
    /\ call.args.index = 2 ^ (MaxBranch - 1)
    /\ IsOk(call.result)
    /\ call.result.v # call.args.hash

\* header was decoded from s at height h: it encodes to s again, s decodes
\* to it again, and its hash is the hash of s
RoundTrips(s, h, header) ==
    /\ serialize_header(header) = s
    /\ deserialize_header(serialize_header(header), h) = Ok(header)
    /\ hash_header(header) = hash_raw_header(s)
    /\ hash_header(deserialize_header(serialize_header(header), h).v) = hash_header(header)

SameOutcome(a, b) == a.exc = b.exc /\ (IsOk(a) => a.v = b.v)

\* the forks a caller may ask for
ForkInputs == [parent : Registered, h : 0..MaxHeight, dt : Deltas, kind : {"good", "badprev"}]

ForkHeader(x) == HeaderOn(World, x.parent, x.h, x.dt, x.kind)

Holds(r) == IsOk(r) /\ r.v = TRUE

\* fork(x.parent, header) returned chain r.v
ForkReturned(r, x) ==
    /\ Holds(can_connect(World, x.parent, ForkHeader(x), FALSE, FALSE))
    /\ SameAnswer(read_header(r.w, r.v, x.h), Ok(ForkHeader(x)))
    /\ \A h \in 0..(x.h - 1) :
          SameOutcome(get_hash(r.w, r.v, h), get_hash(World, x.parent, h))
    /\ get_id(r.w, r.v) \in DOMAIN r.w.blockchains
    /\ r.w.blockchains[get_id(r.w, r.v)] = r.v

\* fork(x.parent, header) raised
ForkRaised(r) ==
    /\ r.w.blockchains = World.blockchains
    /\ \A c \in Registered : \A h \in 0..MaxHeight :
          SameAnswer(read_header(r.w, c, h), read_header(World, c, h))

ForkKeepsContract(r, x) == IF IsOk(r) THEN ForkReturned(r, x) ELSE ForkRaised(r)

\* C15: fork(parent, header) succeeds only if
\* parent.can_connect(header, check_height=False) holds; when it returns
\* chain C, C.read_header(header height) is the header, C.get_hash(h) is the
\* parent's get_hash(h) of before the call for every h below the header's
\* height, and the registry maps C.get_id() to C; when it raises, the
\* registry and every existing chain's stored headers are unchanged.
C15_ForkContract ==
    OpsLeft /\ Len(chains) < MaxInst =>
        \A x \in ForkInputs :
            x.h <= Min(height(World, x.parent) + 2, MaxHeight) =>
                ForkKeepsContract(fork(World, x.parent, ForkHeader(x)), x)

(***************************************************************************)
(* save_header appends.                                                    *)
(***************************************************************************)
\* the headers a caller may save: one that links to the header stored below
\* its height on chain c, for any height
SaveInputs == [c : Registered, h : 0..MaxHeight, dt : Deltas]

SaveHdr(x) == HeaderOn(World, x.c, x.h, x.dt, "good")

\* the height of x is the one after the last header of the chain
NextHeight(x) == x.h = chains[x.c].forkpoint + chains[x.c].size

\* get_hash answered with a hash before the call and answers the same after
Kept(pre, post) == IsOk(pre) => SameOutcome(post, pre)

\* save_header(x.c, header) returned
SaveReturned(r, x) ==
    /\ NextHeight(x)
    /\ height(r.w, x.c) = height(World, x.c) + 1
    /\ SameOutcome(get_hash(r.w, x.c, x.h), Ok(hash_header(SaveHdr(x))))
    /\ \A h \in 0..height(World, x.c) :
          Kept(get_hash(World, x.c, h), get_hash(r.w, x.c, h))

\* save_header(x.c, header) raised
SaveRefused(r) == Snapshot(r.w) = Snapshot(World)

SaveAppends(r, x) ==
    /\ IsOk(r) => SaveReturned(r, x)
    /\ ~NextHeight(x) => ~IsOk(r) /\ SaveRefused(r)

RECURSIVE Owner(_, _, _)
Owner(w, c, h) ==
    IF h < w.chains[c].forkpoint /\ w.chains[c].parent # 0
    THEN Owner(w, w.chains[c].parent, h) ELSE c

\* the bytes stored for height h in the file of chain o; none when the height
\* is outside the chain's range or the file is not there
BytesAt(w, o, h) ==
    IF \/ h < w.chains[o].forkpoint
       \/ h > height(w, o)
       \/ ~IsOk(path(w, o))
       \/ path(w, o).v \notin DOMAIN w.files
    THEN <<>>
    ELSE Slice(w.files[path(w, o).v],
               static_header_offset(h) - static_header_offset(w.chains[o].forkpoint),
               static_header_offset(h) - static_header_offset(w.chains[o].forkpoint)
                   + get_header_size_height(h))

\* a real header is stored: a whole record that is not all-zero bytes
RealHeader(bytes, h) ==
    Len(bytes) = get_header_size_height(h) /\ bytes # Zeros(get_header_size_height(h))

HashOfBytes(r, bytes, h) ==
    IF RealHeader(bytes, h)
    THEN SameOutcome(r, Ok(hash_header(deserialize_header(bytes, h).v)))
    ELSE r.exc = "MissingHeader"

HashAnswered(w, c, h) ==
    IF h = 0 - 1 THEN SameOutcome(get_hash(w, c, h), Ok(ZERO_HASH))
    ELSE IF h = 0 THEN SameOutcome(get_hash(w, c, h), Ok(GENESIS))
    ELSE HashOfBytes(get_hash(w, c, h), BytesAt(w, Owner(w, c, h), h), h)

AskedHeights == (0 - 2)..(MaxHeight + 1)

\* C17: get_hash(-1) is the all-zero digest and get_hash(0) is the genesis
\* constant for every registered chain, whatever its file holds; for every
\* other height get_hash answers the hash of the header stored at that height
\* in the file of the chain or of the ancestor the height belongs to, and
\* raises MissingHeader when no real header is stored there (a height out of
\* range or below -1, all-zero bytes, or no whole record).
C17_GetHashContract ==
    \A c \in Registered : \A h \in AskedHeights : HashAnswered(World, c, h)

(***************************************************************************)
(* Forks and the checkpoints.                                              *)
(***************************************************************************)
\* the forks asked for at or below the last checkpointed height
BelowCheckpoints == {x \in ForkInputs : 0 < x.h /\ x.h <= max_checkpoint}

\* fork raised and left the state as it was
ForkRejected(r) == ~IsOk(r) /\ Snapshot(r.w) = Snapshot(World)

\* C18: in every reachable state every registered chain that has a parent
\* has a forkpoint strictly greater than the maximum checkpointed height, and
\* fork with a header of a height h, 0 < h <= max_checkpoint, is rejected.
C18_ForksAboveCheckpoints ==
    /\ \A c \in Registered : chains[c].parent # 0 => chains[c].forkpoint > max_checkpoint
    /\ OpsLeft /\ Len(chains) < MaxInst =>
          \A x \in BelowCheckpoints : ForkRejected(fork(World, x.parent, ForkHeader(x)))

\* with a checkpointed chunk: a fork took its parent's place, the chain it
\* replaced is registered as a fork right above the checkpoints, and a header
\* that connects at the last checkpointed height is not taken as a fork
C18_Witness ==
    /\ max_checkpoint > 0
    /\ \E i \in DOMAIN log : log[i].ev = "swapped"
    /\ \E c \in Registered :
          /\ chains[c].parent # 0
          /\ chains[c].forkpoint = max_checkpoint + 1
    /\ \E x \in BelowCheckpoints :
          /\ Holds(can_connect(World, x.parent, ForkHeader(x), FALSE, FALSE))
          /\ ForkRejected(fork(World, x.parent, ForkHeader(x)))

(***************************************************************************)
(* Startup: read_blockchains over the files of the headers directory.      *)
(***************************************************************************)
\* the parts of a fork's file name: fork2_{forkpoint}_{prev_hash}_{first_hash}
NameForkpoint(filename) == filename[1]
NamePrevHash(filename) == SubSeq(filename, 2, 1 + HASH_WORDS)
NameFirstHash(filename) == SubSeq(filename, 2 + HASH_WORDS, 1 + 2 * HASH_WORDS)

delete_chain(w, filename) == [w EXCEPT !.files = RemoveFile(@, filename)]

FirstOf(S) == CHOOSE x \in S : \A y \in S : x <= y

\* for parent in blockchains.values(): the first registered chain, in the
\* order of registration, that has prev_hash at the height below forkpoint;
\* 0 when the loop ends without a break
FindParent(w, forkpoint, prev_hash) ==
    IF \E k \in DOMAIN w.blockchains :
          check_hash(w, w.blockchains[k], forkpoint - 1, prev_hash)
    THEN FirstOf({w.blockchains[k] : k \in
                    {q \in DOMAIN w.blockchains :
                        check_hash(w, w.blockchains[q], forkpoint - 1, prev_hash)}})
    ELSE 0

\* a chain that registers whatever the file holds
UncheckedChain(w, r, b, parent, filename) ==
    IF ~IsOk(r) THEN Fail(w, r.exc)
    ELSE Ret([r.w EXCEPT !.blockchains = SetKey(@, get_id(r.w, b), b)], 0)

\* the consistency checks on the constructed chain b, whose file is filename
CheckedChain(w, r, b, parent, filename) ==
    IF ~IsOk(r) THEN Fail(w, r.exc)
    ELSE Try(w, read_header(r.w, b, NameForkpoint(filename)), LAMBDA h :
            IF NameFirstHash(filename) # hash_header(h)
            THEN Ret(delete_chain(w, filename), 0)
            ELSE Try(w, can_connect(r.w, parent, h, FALSE, FALSE), LAMBDA connects :
                    IF ~connects THEN Ret(delete_chain(w, filename), 0)
                    ELSE Ret([r.w EXCEPT !.blockchains = SetKey(@, get_id(r.w, b), b)], 0)))

ParentFound(w, parent, filename) ==
    IF parent = 0 THEN Ret(delete_chain(w, filename), 0)
    ELSE CheckedChain(
             w,
             update_size(
                 [w EXCEPT !.chains =
                     Append(@, [forkpoint |-> NameForkpoint(filename),
                                parent |-> parent,
                                forkpoint_hash |-> NameFirstHash(filename),
                                prev_hash |-> NamePrevHash(filename),
                                size |-> 0])],
                 Len(w.chains) + 1),
             Len(w.chains) + 1, parent, filename)

instantiate_chain(w, filename) ==
    IF NameForkpoint(filename) <= max_checkpoint THEN Ret(delete_chain(w, filename), 0)
    ELSE ParentFound(w, FindParent(w, NameForkpoint(filename), NamePrevHash(filename)),
                     filename)

\* for filename in l: instantiate_chain(filename)
RECURSIVE InstantiateAll(_, _, _)
InstantiateAll(w, l, i) ==
    IF i > Len(l) THEN Ret(w, 0)
    ELSE Then(instantiate_chain(w, l[i]), LAMBDA r : InstantiateAll(r.w, l, i + 1))

\* the best chain does not pass the check on the header after the last
\* checkpoint: its file is deleted
BestChainDeleted(w) == update_size([w EXCEPT !.files = RemoveFile(@, RootPath)], 1)

\* the consistency check on the best chain
BestChainChecked(w) ==
    IF ~(height(w, 1) > max_checkpoint) THEN Ret(w, 0)
    ELSE Try(w, read_header(w, 1, max_checkpoint + 1), LAMBDA header_after_cp :
            IF IsNone(header_after_cp) THEN BestChainDeleted(w)
            ELSE Try(w, can_connect(w, 1, header_after_cp, FALSE, FALSE), LAMBDA connects :
                    IF ~connects THEN BestChainDeleted(w) ELSE Ret(w, 0)))

\* read_blockchains on the directory fs, whose fork files os.listdir and the
\* sort by forkpoint give in the order l
read_blockchains(fs, l) ==
    Then(update_size([EmptyWorld EXCEPT !.files = fs], 1), LAMBDA best_chain :
        Then(BestChainChecked(best_chain.w), LAMBDA r : InstantiateAll(r.w, l, 1)))

ForkFiles(fs) == DOMAIN fs \ {RootPath}

\* the orders sorted(l, key=forkpoint) can give: the sort is stable and
\* os.listdir gives the names in any order
Listings(fs) ==
    {l \in [1..Cardinality(ForkFiles(fs)) -> ForkFiles(fs)] :
        /\ \A i, j \in DOMAIN l : i < j => l[i] # l[j]
        /\ \A i, j \in DOMAIN l : i < j => NameForkpoint(l[i]) <= NameForkpoint(l[j])}

\* the headers directories found at startup: a headers file of the best
\* chain and up to MaxForkFiles fork files, left by earlier runs or damaged
MaxForkFiles == 2

\* the header for height h that follows the header chain c has at h - 1, with
\* the bits the main network asks for
HeaderAfter(w, c, h, dt, kind) ==
    HeaderWith(h, get_hash(w, c, h - 1).v, TimeOf(read_header(w, c, h - 1)), dt, kind,
               get_target_wagerr(w, c, h, <<>>))

\* the headers file of the best chain with n good headers of the main
\* network, as InitRootData gives it there
RECURSIVE GoodRoot(_, _, _)
GoodRoot(w, n, second) ==
    IF size(w, 1) >= n THEN w
    ELSE GoodRoot(
             update_size(
                 [w EXCEPT !.files[RootPath] =
                     @ \o serialize_header(
                              IF size(w, 1) = 0 THEN GenesisHeader
                              ELSE HeaderAfter(w, 1, size(w, 1), DGW_TARGET_SPACING,
                                               IF size(w, 1) = 1 THEN second ELSE "good"))],
                 1).w,
             n, second)

StartRoot(n) == GoodRoot(EmptyWorld, n, "good")

\* a headers file whose header of height 1 does not link to the genesis header
UnlinkedRoot == GoodRoot(EmptyWorld, InitHeaders, "badprev")

StartBase == StartRoot(InitHeaders)

BogusHash == <<2, 2, 2>>

\* a fork file as an earlier run left it, with the header of either spacing,
\* or with one thing wrong: a first header that does not link, a name with
\* another first hash or another previous hash, or no header in it
OneDefect(x) ==
    /\ x.kind = "good" \/ (x.name = "true" /\ x.len = 1)
    /\ x.name = "true" \/ x.len = 1
    /\ x.dt = DGW_TARGET_SPACING => x.kind = "good" /\ x.name = "true" /\ x.len = 1

ForkFileKinds ==
    {x \in [forkpoint : 1..(MaxHeight - 1), dt : Deltas, kind : {"good", "badprev"},
            name : {"true", "first", "prev"}, len : {0, 1}] : OneDefect(x)}

FirstHeader(x) == HeaderAfter(StartBase, 1, x.forkpoint, x.dt, x.kind)

FileName(x) ==
    <<x.forkpoint>>
    \o (IF x.name = "prev" THEN BogusHash ELSE get_hash(StartBase, 1, x.forkpoint - 1).v)
    \o (IF x.name = "first" THEN BogusHash ELSE hash_header(FirstHeader(x)))

FileData(x) == IF x.len = 0 THEN <<>> ELSE serialize_header(FirstHeader(x))

\* a fork of a fork: the file of a chain that forks at height 3 from the fork
\* made at height 2 with the slow header
OuterFork == [forkpoint |-> 2, dt |-> 600, kind |-> "good", name |-> "true", len |-> 1]

WithOuterFork ==
    [StartBase EXCEPT
        !.chains = Append(@, [forkpoint |-> 2, parent |-> 1,
                              forkpoint_hash |-> hash_header(FirstHeader(OuterFork)),
                              prev_hash |-> get_hash(StartBase, 1, 1).v,
                              size |-> 1]),
        !.files = AddFile(@, FileName(OuterFork), FileData(OuterFork))]

InnerHeader == HeaderAfter(WithOuterFork, 2, 3, DGW_TARGET_SPACING, "good")

InnerFile ==
    [name |-> <<3>> \o hash_header(FirstHeader(OuterFork)) \o hash_header(InnerHeader),
     data |-> serialize_header(InnerHeader)]

CandidateFiles ==
    {[name |-> FileName(x), data |-> FileData(x)] : x \in ForkFileKinds} \cup {InnerFile}

RECURSIVE UpTo(_)
UpTo(k) ==
    IF k = 0 THEN {{}}
    ELSE UpTo(k - 1) \cup {S \cup {a} : S \in UpTo(k - 1), a \in CandidateFiles}

Directories == {S \in UpTo(MaxForkFiles) : \A a, b \in S : a.name = b.name => a = b}

DirectoryOf(root, S) ==
    [q \in {RootPath} \cup {a.name : a \in S} |->
        IF q = RootPath THEN root.files[RootPath]
        ELSE (CHOOSE a \in S : a.name = q).data]

StartDirectories ==
    {DirectoryOf(root, S) : root \in {StartRoot(0), StartRoot(InitHeaders), UnlinkedRoot},
                            S \in Directories}

\* before read_blockchains: no chain is constructed, the registry is empty
InitStartup ==
    /\ TESTNET = FALSE
    /\ CHECKPOINTS \in {0, 1}
    /\ files \in StartDirectories
    /\ chains = <<>>
    /\ blockchains = [k \in {} |-> 0]
    /\ cache = EmptyWorld.cache
    /\ last = [op |-> "start", exc |-> "ok"]
    /\ ops = 0
    /\ log = <<>>
    /\ call = NoCall

\* read_blockchains runs once, on the directory as it is found
ReadBlockchains ==
    /\ last.op = "start"
    /\ \E l \in Listings(files) :
          /\ chains' = read_blockchains(files, l).w.chains
          /\ files' = read_blockchains(files, l).w.files
          /\ blockchains' = read_blockchains(files, l).w.blockchains
          /\ cache' = read_blockchains(files, l).w.cache
          /\ last' = [op |-> "read_blockchains", exc |-> read_blockchains(files, l).exc]
          /\ call' = [op |-> "read_blockchains", args |-> [files |-> files, l |-> l],
                      done |-> TRUE, result |-> Ok(0)]
    /\ UNCHANGED <<TESTNET, CHECKPOINTS, ops, log>>

NextStartup == ReadBlockchains

SpecStartup == InitStartup /\ [][NextStartup]_vars

\* read_blockchains has returned
Started == last.op = "read_blockchains" /\ last.exc = "ok"

\* the first header stored in the file of fork c
FirstStored(c) == read_header(World, c, chains[c].forkpoint)

\* fork c of the registry passed the checks of startup
ValidFork(c) ==
    /\ chains[c].forkpoint > max_checkpoint
    /\ chains[c].parent \in Registered
    /\ chains[c].parent < c
    /\ HashIs(get_hash(World, chains[c].parent, chains[c].forkpoint - 1), chains[c].prev_hash)
    /\ IsOk(FirstStored(c))
    /\ hash_header(FirstStored(c).v) = chains[c].forkpoint_hash
    /\ chains[c].forkpoint_hash \in DOMAIN blockchains
    /\ blockchains[chains[c].forkpoint_hash] = c
    /\ Holds(can_connect(World, chains[c].parent, FirstStored(c).v, FALSE, FALSE))

\* the record of the height of its forkpoint in the file found under filename
FoundFirst(filename) ==
    HeaderOfBytes(Slice(call.args.files[filename], 0,
                        get_header_size_height(NameForkpoint(filename))),
                  get_header_size_height(NameForkpoint(filename)), NameForkpoint(filename))

\* the file found under filename names a forkpoint above the checkpoints and
\* the hash of its first header, and a registered chain has the previous
\* hash it names and connects the first header
PassesChecks(filename) ==
    /\ NameForkpoint(filename) > max_checkpoint
    /\ IsOk(FoundFirst(filename))
    /\ ~IsNone(FoundFirst(filename).v)
    /\ hash_header(FoundFirst(filename).v) = NameFirstHash(filename)
    /\ \E p \in Registered :
          /\ chains[p].forkpoint_hash # NameFirstHash(filename)
          /\ check_hash(World, p, NameForkpoint(filename) - 1, NamePrevHash(filename))
          /\ Holds(can_connect(World, p, FoundFirst(filename).v, FALSE, FALSE))

\* C19: after read_blockchains has returned, every fork in the registry has
\* a forkpoint above the last checkpointed height, a parent that is in the
\* registry, was instantiated before it and has the fork's declared previous
\* hash at forkpoint - 1, a first stored header whose hash is the declared
\* identity, under which the registry holds the fork, and which connects to
\* the parent; the fork files left in the directory are those of the
\* registered forks, every file found that fails a check being deleted and
\* not registered, and every file found that passes the checks is kept; the
\* files were processed in ascending order of forkpoint.
C19_StartupValidatesForks ==
    Started =>
        /\ \A c \in Forks : ValidFork(c)
        /\ ForkFiles(files) = {path(World, c).v : c \in Forks}
        /\ \A filename \in ForkFiles(call.args.files) :
              filename \in ForkFiles(files) <=> PassesChecks(filename)
        /\ \A i, j \in DOMAIN call.args.l :
              i < j => NameForkpoint(call.args.l[i]) <= NameForkpoint(call.args.l[j])

\* startup found two fork files, one forking from the other, and a third
\* file is not needed: read_blockchains registered both, the fork of the fork
\* with the fork as parent
C19_Witness ==
    /\ Started
    /\ Cardinality(ForkFiles(call.args.files)) = MaxForkFiles
    /\ \E c \in Forks : chains[c].parent \in Forks

(***************************************************************************)
(* Threads: swap_with_parent statement by statement, and a second thread   *)
(* that calls into the parent and the registry.  The thread that swaps     *)
(* holds the lock of its chain and blockchains_lock from Acquire to the    *)
(* end; the parent's lock is taken inside parent.write, parent.update_size,*)
(* parent.path, parent.height and parent.get_chainwork only, so it is free *)
(* between the statements.  call is the frame of the swapping thread, last *)
(* the last answer the second thread got.                                  *)
(***************************************************************************)
\* worlds in which a fork of k headers at forkpoint F is registered beside a
\* best chain of n headers
RECURSIVE GrowFork(_, _, _)
GrowFork(w, k, dt) ==
    IF size(w, 2) >= k THEN w
    ELSE GrowFork(
             update_size(
                 [w EXCEPT !.files[path(w, 2).v] =
                     @ \o serialize_header(HeaderAfter(w, 2, height(w, 2) + 1, dt, "good"))],
                 2).w,
             k, dt)

ForkedFrom(w, F, first) ==
    [w EXCEPT
        !.chains = Append(@, [forkpoint |-> F, parent |-> 1,
                              forkpoint_hash |-> hash_header(first),
                              prev_hash |-> get_hash(w, 1, F - 1).v,
                              size |-> 0]),
        !.files = AddFile(@, <<F>> \o get_hash(w, 1, F - 1).v \o hash_header(first), <<>>),
        !.blockchains = SetKey(@, hash_header(first), 2)]

MaxForkLen == 2

SwapWorlds ==
    {GrowFork(ForkedFrom(StartRoot(x.n), x.F, HeaderAfter(StartRoot(x.n), 1, x.F, x.dt, "good")),
              x.k, x.dt) :
        x \in {y \in [n : 2..(InitHeaders - 1), F : 1..(InitHeaders - 1),
                      k : 1..MaxForkLen, dt : Deltas] : y.F <= y.n}}

Idle == [pc |-> "idle", c |-> 2, p |-> 0, cur |-> 0, before |-> Snapshot(EmptyWorld),
         child_old_name |-> <<>>, my_data |-> <<>>, parent_data |-> <<>>,
         child_old_id |-> ZERO_HASH, parent_old_id |-> ZERO_HASH, cnt |-> 0]

InitSwap ==
    /\ TESTNET = FALSE
    /\ CHECKPOINTS = 0
    /\ \E w \in SwapWorlds :
          /\ chains = w.chains
          /\ files = w.files
          /\ blockchains = w.blockchains
    /\ cache = EmptyWorld.cache
    /\ last = [op |-> "none", h |-> 0, at |-> "idle", r |-> Ok(0)]
    /\ ops = 0
    /\ log = <<>>
    /\ call = Idle

\* the swapping thread moves on to statement pc, leaving the state of r
Goto(r, frame, pc) ==
    /\ chains' = r.w.chains
    /\ files' = r.w.files
    /\ blockchains' = r.w.blockchains
    /\ cache' = r.w.cache
    /\ call' = [frame EXCEPT !.pc = IF IsOk(r) THEN pc ELSE "done"]
    /\ UNCHANGED <<TESTNET, CHECKPOINTS, last, ops, log>>

\* with self.lock, blockchains_lock:
Acquire ==
    /\ call.pc = "idle"
    /\ Goto(Ret(World, 0),
            [call EXCEPT !.p = chains[call.c].parent, !.before = Snapshot(World)],
            "compare")

\* the tests at the head of _swap_with_parent; when they fail the loop ends
\* and the locks are released
Compare ==
    /\ call.pc = "compare"
    /\ IF chains[call.c].parent = 0 THEN Goto(Ret(World, 0), call, "done")
       ELSE Goto(Ret(get_chainwork(get_chainwork(World, chains[call.c].parent).w, call.c).w, 0),
                 [call EXCEPT !.cur = chains[call.c].parent],
                 IF /\ IsOk(get_chainwork(World, chains[call.c].parent))
                    /\ IsOk(get_chainwork(World, call.c))
                    /\ get_chainwork(World, chains[call.c].parent).v
                           < get_chainwork(World, call.c).v
                 THEN "read" ELSE "done")

\* the ids are taken and the two files are read
ReadFiles ==
    /\ call.pc = "read"
    /\ IF \/ ~IsOk(path(World, call.c)) \/ ~IsOk(path(World, call.cur))
       THEN Goto(Fail(World, "AssertionError"), call, "done")
       ELSE IF \/ path(World, call.c).v \notin DOMAIN files
               \/ path(World, call.cur).v \notin DOMAIN files
       THEN Goto(Fail(World, "FileNotFoundError"), call, "done")
       ELSE IF ~(chains[call.c].forkpoint > chains[call.cur].forkpoint)
       THEN Goto(Fail(World, "AssertionError"), call, "done")
       ELSE Goto(Ret(World, 0),
                 [call EXCEPT
                     !.child_old_id = get_id(World, call.c),
                     !.parent_old_id = get_id(World, call.cur),
                     !.child_old_name = path(World, call.c).v,
                     !.my_data = files[path(World, call.c).v],
                     !.parent_data =
                         FileRead(files[path(World, call.cur).v],
                                  static_header_offset(chains[call.c].forkpoint)
                                      - static_header_offset(chains[call.cur].forkpoint),
                                  (height(World, call.cur) - chains[call.c].forkpoint + 1)
                                      * get_header_size_height(chains[call.c].forkpoint)).v],
                 "write_child")

\* self.write(parent_data, 0)
WriteChild ==
    /\ call.pc = "write_child"
    /\ Goto(write(World, call.c, call.parent_data, 0, TRUE), call, "write_parent")

\* parent.write(my_data, ...)
WriteParent ==
    /\ call.pc = "write_parent"
    /\ Goto(write(World, call.cur, call.my_data,
                  static_header_offset(chains[call.c].forkpoint)
                      - static_header_offset(chains[call.cur].forkpoint),
                  TRUE),
            call, "params")

\* the four assignments under "swap parameters"
SwapParameters ==
    /\ call.pc = "params"
    /\ Goto(Ret([World EXCEPT !.chains =
                    [@ EXCEPT
                        ![call.c] = [@ EXCEPT !.parent = chains[call.cur].parent,
                                              !.forkpoint = chains[call.cur].forkpoint,
                                              !.forkpoint_hash = chains[call.cur].forkpoint_hash,
                                              !.prev_hash = chains[call.cur].prev_hash],
                        ![call.cur] = [@ EXCEPT !.parent = call.c,
                                                !.forkpoint = chains[call.c].forkpoint,
                                                !.forkpoint_hash =
                                                    hash_raw_header(
                                                        Slice(call.parent_data, 0,
                                                              get_header_size_height(
                                                                  chains[call.c].forkpoint
                                                                      + chains[call.cur].size - 1))),
                                                !.prev_hash = chains[call.c].prev_hash]]],
                0),
            call, "replace")

\* os.replace(child_old_name, parent.path())
Replace ==
    /\ call.pc = "replace"
    /\ IF ~IsOk(path(World, call.cur)) THEN Goto(Fail(World, "AssertionError"), call, "done")
       ELSE Goto(Ret([World EXCEPT !.files =
                         IF path(World, call.cur).v = call.child_old_name THEN @
                         ELSE AddFile(RemoveFile(@, call.child_old_name),
                                      path(World, call.cur).v, @[call.child_old_name])],
                     0),
                 call, "sizes")

\* self.update_size(); parent.update_size()
UpdateSizes ==
    /\ call.pc = "sizes"
    /\ Goto(Then(update_size(World, call.c), LAMBDA r : update_size(r.w, call.cur)),
            call, "pops")

\* blockchains.pop(child_old_id, None); blockchains.pop(parent_old_id, None)
Pops ==
    /\ call.pc = "pops"
    /\ Goto(Ret([World EXCEPT !.blockchains =
                    DropKeys(@, {call.child_old_id, call.parent_old_id})], 0),
            call, "inserts")

\* blockchains[self.get_id()] = self; blockchains[parent.get_id()] = parent
Inserts ==
    /\ call.pc = "inserts"
    /\ Goto(Ret([World EXCEPT !.blockchains =
                    SetKey(SetKey(@, get_id(World, call.c), call.c),
                           get_id(World, call.cur), call.cur)], 0),
            call, "siblings")

\* back in the loop of swap_with_parent: the count, the former siblings
Siblings ==
    /\ call.pc = "siblings"
    /\ IF call.cnt + 1 > Cardinality(DOMAIN blockchains)
       THEN Goto(Fail(World, "Exception"), call, "done")
       ELSE Goto(Ret(Reparent(World, call.c, call.cur), 0),
                 [call EXCEPT !.cnt = @ + 1], "compare")

\* what the second thread can ask the parent, which it may lock, the child's
\* get_id, which takes no lock, and the registry, which get_best_chain reads
\* without blockchains_lock
Questions ==
    [op : {"read_header", "get_hash"}, h : 1..MaxHeight]
        \cup [op : {"height", "path", "get_id", "lookup_parent", "lookup_child"}, h : {0}]

Lookup(w, k) == IF k \in DOMAIN w.blockchains THEN Ok(w.blockchains[k]) ELSE Raise("KeyError")

\* the file a chain's path names is there
PathAvailable(w, name) == Ok([name |-> name, exists |-> name \in DOMAIN w.files])

\* the answer to question q in state w, for the pair c, p whose ids were in
\* the state before
Answer(w, before, c, p, q) ==
    IF q.op = "read_header" THEN read_header(w, p, q.h)
    ELSE IF q.op = "get_hash" THEN get_hash(w, p, q.h)
    ELSE IF q.op = "height" THEN Ok(height(w, p))
    ELSE IF q.op = "path" THEN Bind(path(w, p), LAMBDA name : PathAvailable(w, name))
    ELSE IF q.op = "get_id" THEN Ok(get_id(w, c))
    ELSE IF q.op = "lookup_parent" THEN Lookup(w, get_id(before, p))
    ELSE Lookup(w, get_id(before, c))

\* the second thread asks while the first is inside swap_with_parent
Observe(q) ==
    /\ call.pc \notin {"idle", "done"}
    /\ call.p # 0
    /\ last' = [op |-> q.op, h |-> q.h, at |-> call.pc,
                r |-> Answer(World, call.before, call.c, call.p, q)]
    /\ UNCHANGED <<chains, files, blockchains, cache, TESTNET, CHECKPOINTS, ops, log, call>>

NextSwap ==
    \/ Acquire
    \/ Compare
    \/ ReadFiles
    \/ WriteChild
    \/ WriteParent
    \/ SwapParameters
    \/ Replace
    \/ UpdateSizes
    \/ Pops
    \/ Inserts
    \/ Siblings
    \/ \E q \in Questions : Observe(q)

SpecSwap == InitSwap /\ [][NextSwap]_vars

\* the state when the locks were taken, and the state swap_with_parent
\* leaves when it runs from there alone
BeforeSwap == [chains |-> call.before.chains, files |-> call.before.files,
               blockchains |-> call.before.blockchains, cache |-> call.before.cache,
               log |-> <<>>]

AfterSwap == swap_with_parent(BeforeSwap, call.c).w

Asked == [op |-> last.op, h |-> last.h]

\* the same answer: the same ending and, if a value, the same value
SameSeen(a, b) == IF last.op = "read_header" THEN SameAnswer(a, b) ELSE SameOutcome(a, b)

SeenIn(w) == SameSeen(last.r, Answer(w, call.before, call.c, call.p, Asked))

\* C20: a swap is atomic to other threads: whatever a second thread is
\* answered by read_header, get_hash, height or path of the parent, by get_id
\* of the child or by a registry lookup of one of the two ids, while the first
\* thread is inside swap_with_parent, is the answer of the state before the
\* swap or the answer of the state after it.
C20_SwapAtomic == last.op # "none" => SeenIn(BeforeSwap) \/ SeenIn(AfterSwap)

(***************************************************************************)
(* Locks.  Threads call save_header, save_chunk, get_parent_heights and    *)
(* get_direct_children; each lock is re-entrant, so only the first         *)
(* acquisition of a lock by a thread can block.  call[t] is the frame of   *)
(* thread t: the operation, the chain it was called on, the chain whose    *)
(* swap_with_parent runs, the data to store, the statement reached and the *)
(* locks held (an instance number for a chain's lock, 0 for                *)
(* blockchains_lock).  The work done between two acquisitions is one step. *)
(***************************************************************************)
MaxThreads == 2

Threads == 1..MaxThreads

blockchains_lock == 0

Resting == [op |-> "none", c |-> 0, self |-> 0, index |-> 0, data |-> <<>>,
            pc |-> "idle", cnt |-> 0, held |-> {}]

\* a best chain of InitHeaders - 1 headers and a fork above the checkpoints
LockWorlds ==
    {w \in SwapWorlds : w.chains[2].forkpoint > CHUNK_SIZE - 1
                           /\ w.chains[1].size = InitHeaders - 1}

InitLocks ==
    /\ TESTNET = FALSE
    /\ CHECKPOINTS = 1
    /\ \E w \in LockWorlds :
          /\ chains = w.chains
          /\ files = w.files
          /\ blockchains = w.blockchains
    /\ cache = EmptyWorld.cache
    /\ last = [op |-> "none", exc |-> "ok"]
    /\ ops = 0
    /\ log = <<>>
    /\ call = [t \in Threads |-> Resting]

\* no other thread holds lock l
Free(l, t) == \A u \in Threads \ {t} : l \notin call[u].held

\* thread t goes on with the given frame in the state r leaves; an exception
\* leaves every with block, which releases the locks
Proceed(r, t, frame) ==
    /\ chains' = r.w.chains
    /\ files' = r.w.files
    /\ blockchains' = r.w.blockchains
    /\ cache' = r.w.cache
    /\ call' = [call EXCEPT ![t] = IF IsOk(r) /\ frame.pc # "idle" THEN frame ELSE Resting]
    /\ last' = IF IsOk(r) /\ frame.pc # "idle" THEN last
               ELSE [op |-> call[t].op, exc |-> r.exc]
    /\ UNCHANGED <<TESTNET, CHECKPOINTS, ops, log>>

\* a thread calls save_header with the next header of the chain
CallSaveHeader(t, c, dt) ==
    /\ call[t].pc = "idle"
    /\ OpsLeft
    /\ height(World, c) < MaxHeight
    /\ call' = [call EXCEPT ![t] =
                   [Resting EXCEPT !.op = "save_header", !.c = c, !.self = c,
                                   !.index = height(World, c) + 1,
                                   !.data = serialize_header(
                                                HeaderOn(World, c, height(World, c) + 1,
                                                         dt, "good")),
                                   !.pc = "start"]]
    /\ ops' = ops + 1
    /\ UNCHANGED <<chains, files, blockchains, cache, TESTNET, CHECKPOINTS, last, log>>

\* a thread calls save_chunk with a chunk that continues the chain
CallSaveChunk(t, c, index) ==
    /\ call[t].pc = "idle"
    /\ OpsLeft
    /\ call' = [call EXCEPT ![t] =
                   [Resting EXCEPT !.op = "save_chunk", !.c = c, !.self = c,
                                   !.index = index,
                                   !.data = ChunkOn(World, c, index, CHUNK_SIZE,
                                                    DGW_TARGET_SPACING, "good"),
                                   !.pc = "start"]]
    /\ ops' = ops + 1
    /\ UNCHANGED <<chains, files, blockchains, cache, TESTNET, CHECKPOINTS, last, log>>

\* a thread calls get_parent_heights or get_direct_children
CallQuery(t, op, c) ==
    /\ call[t].pc = "idle"
    /\ OpsLeft
    /\ call' = [call EXCEPT ![t] = [Resting EXCEPT !.op = op, !.c = c, !.self = c,
                                                   !.pc = "start"]]
    /\ ops' = ops + 1
    /\ UNCHANGED <<chains, files, blockchains, cache, TESTNET, CHECKPOINTS, last, log>>

\* @with_lock of save_header and save_chunk
EnterChain(t) ==
    /\ call[t].pc = "start"
    /\ call[t].op \in {"save_header", "save_chunk"}
    /\ Free(call[t].c, t)
    /\ Proceed(Ret(World, 0), t,
               [call[t] EXCEPT !.held = @ \cup {call[t].c}, !.pc = "body"])

\* save_header up to the call of swap_with_parent
SaveHeaderBody(t) ==
    /\ call[t].pc = "body"
    /\ call[t].op = "save_header"
    /\ Proceed(IF size(World, call[t].c) # call[t].index - chains[call[t].c].forkpoint
               THEN Fail(World, "AssertionError")
               ELSE write(World, call[t].c, call[t].data,
                          static_header_offset(call[t].index)
                              - static_header_offset(chains[call[t].c].forkpoint),
                          TRUE),
               t, [call[t] EXCEPT !.pc = "registry"])

\* what save_chunk writes on the chain that keeps the chunk
ChunkWritten(w, keeper, index, chunk, delta_bytes) ==
    write(w, keeper,
          IF delta_bytes < 0 THEN Slice(chunk, 0 - delta_bytes, Len(chunk)) ELSE chunk,
          IF delta_bytes < 0 THEN 0 ELSE delta_bytes,
          ~(index * CHUNK_SIZE < max_checkpoint))

\* save_chunk up to the call of swap_with_parent, or up to the call of
\* main_chain.save_chunk
SaveChunkBody(t) ==
    /\ call[t].pc = "body"
    /\ call[t].op = "save_chunk"
    /\ IF ~IsOk(ChunkKeeper(World, call[t].c, call[t].index))
       THEN Proceed(Fail(World, ChunkKeeper(World, call[t].c, call[t].index).exc), t, call[t])
       ELSE IF ChunkKeeper(World, call[t].c, call[t].index).v # call[t].c
       THEN Proceed(Ret(World, 0), t,
                    [call[t] EXCEPT !.self = ChunkKeeper(World, call[t].c, call[t].index).v,
                                    !.pc = "main"])
       ELSE Proceed(ChunkWritten(World, call[t].c, call[t].index, call[t].data,
                                 static_header_offset(call[t].index * CHUNK_SIZE)
                                     - static_header_offset(chains[call[t].c].forkpoint)),
                    t, [call[t] EXCEPT !.pc = "registry"])

\* @with_lock of main_chain.save_chunk, and its body up to swap_with_parent
EnterMain(t) ==
    /\ call[t].pc = "main"
    /\ Free(call[t].self, t)
    /\ Proceed(ChunkWritten(World, call[t].self, call[t].index, call[t].data,
                            static_header_offset(call[t].index * CHUNK_SIZE)
                                - static_header_offset(chains[call[t].self].forkpoint)),
               t, [call[t] EXCEPT !.held = @ \cup {call[t].self}, !.pc = "registry"])

\* with self.lock, blockchains_lock: in swap_with_parent
EnterRegistry(t) ==
    /\ call[t].pc = "registry"
    /\ Free(blockchains_lock, t)
    /\ Proceed(Ret(World, 0), t,
               [call[t] EXCEPT !.held = @ \cup {blockchains_lock}, !.pc = "parent",
                               !.cnt = 0])

\* one round of the loop of swap_with_parent: _swap_with_parent, which calls
\* into the parent (get_chainwork, height, path, write, update_size: each
\* takes the parent's lock), the count and the former siblings
SwapRound(t) ==
    /\ call[t].pc = "parent"
    /\ IF chains[call[t].self].parent = 0
       THEN Proceed(Ret(World, 0), t, [call[t] EXCEPT !.pc = "release"])
       ELSE /\ Free(chains[call[t].self].parent, t)
            /\ LET r == swap_with_parent_step(World, call[t].self)
               IN  IF ~IsOk(r) THEN Proceed(r, t, call[t])
                   ELSE IF ~r.v THEN Proceed(r, t, [call[t] EXCEPT !.pc = "release"])
                   ELSE IF call[t].cnt + 1 > Cardinality(DOMAIN r.w.blockchains)
                   THEN Proceed(Fail(r.w, "Exception"), t, call[t])
                   ELSE Proceed(Ret(Reparent(r.w, call[t].self, chains[call[t].self].parent), 0),
                                t, [call[t] EXCEPT !.cnt = @ + 1])

\* the with blocks are left and the call returns
Release(t) ==
    /\ call[t].pc = "release"
    /\ Proceed(Ret(World, 0), t, Resting)

\* with blockchains_lock: in get_parent_heights
QueryRegistry(t) ==
    /\ call[t].pc = "start"
    /\ call[t].op = "get_parent_heights"
    /\ Free(blockchains_lock, t)
    /\ Proceed(Ret(World, 0), t,
               [call[t] EXCEPT !.held = @ \cup {blockchains_lock}, !.pc = "height"])

\* self.height() in get_parent_heights, and the walk up the parents
OwnHeight(t) ==
    /\ call[t].pc = "height"
    /\ Free(call[t].c, t)
    /\ Proceed(Ret(World, get_parent_heights(World, call[t].c)), t,
               [call[t] EXCEPT !.pc = "release"])

\* get_direct_children: the registry is read under blockchains_lock
GetDirectChildren(t) ==
    /\ call[t].pc = "start"
    /\ call[t].op = "get_direct_children"
    /\ Free(blockchains_lock, t)
    /\ Proceed(Ret(World, get_direct_children(World, call[t].c)), t, Resting)

NextLocks ==
    \/ \E t \in Threads, c \in Registered : CallSaveHeader(t, c, DGW_TARGET_SPACING)
    \/ \E t \in Threads, c \in Registered, index \in 0..1 : CallSaveChunk(t, c, index)
    \/ \E t \in Threads, c \in Registered :
          \E op \in {"get_parent_heights", "get_direct_children"} : CallQuery(t, op, c)
    \/ \E t \in Threads : EnterChain(t)
    \/ \E t \in Threads : SaveHeaderBody(t)
    \/ \E t \in Threads : SaveChunkBody(t)
    \/ \E t \in Threads : EnterMain(t)
    \/ \E t \in Threads : EnterRegistry(t)
    \/ \E t \in Threads : SwapRound(t)
    \/ \E t \in Threads : Release(t)
    \/ \E t \in Threads : QueryRegistry(t)
    \/ \E t \in Threads : OwnHeight(t)
    \/ \E t \in Threads : GetDirectChildren(t)

SpecLocks == InitLocks /\ [][NextLocks]_vars

\* the lock thread t takes next, if it takes one: -1 if not
Wanted(t) ==
    IF call[t].pc = "start"
    THEN IF call[t].op \in {"save_header", "save_chunk"} THEN call[t].c ELSE blockchains_lock
    ELSE IF call[t].pc = "main" THEN call[t].self
    ELSE IF call[t].pc = "registry" THEN blockchains_lock
    ELSE IF call[t].pc = "height" THEN call[t].c
    ELSE IF call[t].pc = "parent" /\ chains[call[t].self].parent # 0
    THEN chains[call[t].self].parent
    ELSE 0 - 1

\* thread t waits for a lock another thread holds
Waiting(t) == Wanted(t) # 0 - 1 /\ ~Free(Wanted(t), t)

\* C21: lock acquisition never deadlocks: under any interleaving of threads
\* calling save_header, save_chunk, get_parent_heights and
\* get_direct_children on a chain and on its parent, no state is reached in
\* which every thread waits for a lock held by another.
C21_NoDeadlock == ~(\A t \in Threads : Waiting(t))


(***************************************************************************)
(* Termination of the reorganisation.                                      *)
(***************************************************************************)
\* the number of swap steps a log records
SwapSteps(l) == Cardinality({i \in DOMAIN l : l[i].ev = "swapped"})

\* the call made at most as many swap steps as the registry has chains; the
\* failure 'swapping fork with parent too many times' is raised by the step
\* that exceeds that number
WithinChains(r) == SwapSteps(r.w.log) <= Cardinality(DOMAIN r.w.blockchains)

\* C22: every call of swap_with_parent ends after at most as many swap steps
\* as there are registered chains, so that 'swapping fork with parent too
\* many times' is never raised: in the calls fork, save_header and save_chunk
\* made (the log) and when called on any registered chain in any reachable
\* state.
C22_SwapTerminates ==
    /\ SwapSteps(log) <= Cardinality(DOMAIN blockchains)
    /\ OpsLeft => \A c \in Registered : WithinChains(swap_with_parent(World, c))

\* a chain was swapped with its parent and then with the parent of that one
C22_Witness ==
    /\ SwapSteps(log) >= 2
    /\ last.exc = "ok"


(***************************************************************************)
(* Difficulty regimes.                                                     *)
(***************************************************************************)
\* the heights at or above the minimum window a target may be asked for
WindowHeights == DGW_PAST_BLOCKS..(MaxHeight + 1)

\* the target of the regime the activation height selects for height h, the
\* previous header being lastH
RegimeTarget(w, c, h, lastH) ==
    IF h < LAST_POW_BLOCK THEN DgwLoop(w, c, <<>>, 1, lastH, 0, lastH.timestamp)
    ELSE PosTarget(w, c, <<>>, h, lastH)

TargetOfRegime(w, c, h, prev) ==
    IsOk(prev) /\ ~IsNone(prev.v)
        => SameOutcome(get_target(w, c, h, <<>>), RegimeTarget(w, c, h, prev.v))

\* C23: difficulty regime selection follows the fork-activation height: for
\* every mainnet height h at or above the minimum window whose previous
\* header is available, get_target(h) is the windowed average over the
\* look-back when h < LAST_POW_BLOCK and the result of the
\* single-previous-header spacing formula when h >= LAST_POW_BLOCK.
C23_TargetRegime ==
    \A c \in Registered : \A h \in WindowHeights :
        TargetOfRegime(World, c, h, read_header(World, c, h - 1))


(***************************************************************************)
(* verify_header on its own: the headers, targets and expected hashes a    *)
(* caller may hand over, on either kind of network.                        *)
(***************************************************************************)
\* a header at the last proof-of-work height or just above it, linking to
\* the genesis hash or not, with the bits of the target or others, and a
\* hash that is the target as a number or one more
VerifyInputs ==
    [h : {LAST_POW_BLOCK, LAST_POW_BLOCK + 1}, kind : {"good", "badprev", "wrongbits"},
     over : 0..1, target : {1, bnTargetLimit, MIN_POW},
     expected : {"none", "own", "other"}, proof : BOOLEAN]

VerifiedHeader(x) ==
    [HeaderWith(x.h, GENESIS, GenesisTime, DGW_TARGET_SPACING, x.kind, Ok(x.target))
        EXCEPT !.nonce = x.target + x.over]

ExpectedOf(x) ==
    IF x.expected = "none" THEN NONE_HASH
    ELSE IF x.expected = "own" THEN hash_header(VerifiedHeader(x))
    ELSE BogusHash

InitVerify ==
    /\ TESTNET \in BOOLEAN
    /\ CHECKPOINTS = 0
    /\ chains = EmptyWorld.chains
    /\ files = EmptyWorld.files
    /\ blockchains = EmptyWorld.blockchains
    /\ cache = EmptyWorld.cache
    /\ last = [op |-> "read_blockchains", exc |-> "ok"]
    /\ ops = 0
    /\ log = <<>>
    /\ call \in {[op |-> "verify_header", args |-> x, done |-> FALSE,
                  result |-> Raise("pending")] : x \in VerifyInputs}

VerifyHeader ==
    /\ call.op = "verify_header"
    /\ Returns(verify_header(VerifiedHeader(call.args), GENESIS, call.args.target,
                             ExpectedOf(call.args), call.args.proof))

NextVerify == VerifyHeader

SpecVerify == InitVerify /\ [][NextVerify]_vars

\* the conditions under which a header is to be accepted
Acceptable(header, prev_hash, target, expected_header_hash, proof_was_provided) ==
    /\ expected_header_hash = NONE_HASH \/ hash_header(header) = expected_header_hash
    /\ header.prev_block_hash = prev_hash
    /\ \/ TESTNET
       \/ proof_was_provided
       \/ /\ target_to_bits(target) = header.bits
          /\ \/ header.block_height > LAST_POW_BLOCK
             \/ hash_as_num(hash_header(header)) <= target

\* C24: verify_header accepts a header exactly when (no expected hash is
\* supplied or the header's hash equals it) and its prev_block_hash equals
\* the expected previous hash and (the network is a test network, or a proof
\* was provided, or (target_to_bits(target) equals the header's bits and
\* (the header's height is above LAST_POW_BLOCK or the header hash read as
\* an integer is at most target))); in every other case it fails; and the
\* chain state is what it was before the call.
C24_VerifyHeaderAccepts ==
    Ran("verify_header") =>
        /\ IsOk(call.result)
              <=> Acceptable(VerifiedHeader(call.args), GENESIS, call.args.target,
                             ExpectedOf(call.args), call.args.proof)
        /\ ~IsOk(call.result) => call.result.exc = "Exception"
        /\ Snapshot(World) = Snapshot(EmptyWorld)

\* on the main network, without proof, a header at the last proof-of-work
\* height whose hash is the target as a number has been accepted against
\* its own hash
C24_Witness ==
    /\ Ran("verify_header")
    /\ ~TESTNET
    /\ ~call.args.proof
    /\ call.args.h = LAST_POW_BLOCK
    /\ call.args.expected = "own"
    /\ hash_as_num(hash_header(VerifiedHeader(call.args))) = call.args.target
    /\ call.args.target = MIN_POW
    /\ IsOk(call.result)


(***************************************************************************)
(* Invariants of the tree of chains.                                       *)
(***************************************************************************)
\* in state w chain c branches off its parent where it says it does
Attached(w, c) ==
    /\ IsOk(get_hash(w, w.chains[c].parent, w.chains[c].forkpoint - 1))
    /\ get_hash(w, w.chains[c].parent, w.chains[c].forkpoint - 1).v = w.chains[c].prev_hash

\* C25: lineage consistency is an invariant across swaps: in every reachable
\* state every registered chain C that is not the root satisfies
\* C.parent.get_hash(C.forkpoint - 1) == C's recorded prev_hash.
C25_LineageConsistent == \A c \in Forks : Attached(World, c)

\* in state w chain c is registered under key k, which is its id and the hash
\* of its first header
Identified(w, k, c) ==
    /\ get_id(w, c) = k
    /\ IF w.chains[c].parent = 0 THEN k = GENESIS
       ELSE /\ IsOk(get_hash(w, c, w.chains[c].forkpoint))
            /\ get_hash(w, c, w.chains[c].forkpoint).v = k

\* C26: identity consistency is an invariant: in every reachable state every
\* registry entry (key k, chain c) satisfies c.get_id() == k, and k is the
\* hash of the header c stores at height c.forkpoint (the genesis hash for
\* the root).
C26_IdentityConsistent ==
    \A k \in DOMAIN blockchains : Identified(World, k, blockchains[k])

\* following the parent links from chain c in state w reaches a chain
\* without parent within n steps, the forkpoint decreasing at every step
RECURSIVE ReachesRoot(_, _, _)
ReachesRoot(w, c, n) ==
    IF w.chains[c].parent = 0 THEN TRUE
    ELSE IF n = 0 THEN FALSE
    ELSE /\ w.chains[c].forkpoint > w.chains[w.chains[c].parent].forkpoint
         /\ ReachesRoot(w, w.chains[c].parent, n - 1)

\* C27: the parent relation is a tree in every reachable state: following
\* the parent links from any registered chain reaches the root after
\* finitely many steps with strictly decreasing forkpoints
\* (child.forkpoint > parent.forkpoint).
C27_ParentsFormTree == \A c \in Registered : ReachesRoot(World, c, Len(chains))


(***************************************************************************)
(* Frame of save_chunk.                                                    *)
(***************************************************************************)
\* the chunks a caller may save: whole or the first header only, made of the
\* headers the chain expects or ending in one with other bits
SavedChunks ==
    {x \in [index : 0..(MaxHeight \div CHUNK_SIZE), k : {1, CHUNK_SIZE},
            kind : {"good", "wrongbits"}] : x.index * CHUNK_SIZE + x.k - 1 <= MaxHeight}

ChunkData(c, x) == ChunkOn(World, c, x.index, x.k, DGW_TARGET_SPACING, x.kind)

\* chunk `index` is one of the checkpointed chunks
InHorizon(index) == index < CHECKPOINTS

\* r is the outcome of a save on fork c that went to the root's store only
SavedOnRoot(r, c, index, chunk) ==
    /\ r.w.chains[c] = chains[c]
    /\ DOMAIN r.w.files = DOMAIN files
    /\ \A q \in DOMAIN files \ {RootPath} : r.w.files[q] = files[q]
    /\ r.w.blockchains = blockchains
    /\ IsOk(r) =>
          Slice(r.w.files[RootPath], static_header_offset(index * CHUNK_SIZE),
                static_header_offset(index * CHUNK_SIZE) + Len(chunk)) = chunk

\* own is the outcome of writing the chunk into the store of fork c, and r
\* what swap_with_parent on c makes of it
SavedOnSelf(r, c, own) ==
    /\ \A q \in DOMAIN files \ {path(World, c).v} : q \in DOMAIN own.w.files
                                                       /\ own.w.files[q] = files[q]
    /\ \A i \in DOMAIN chains \ {c} : own.w.chains[i] = chains[i]
    /\ IF IsOk(own)
       THEN r.exc = swap_with_parent(own.w, c).exc
            /\ Snapshot(r.w) = Snapshot(swap_with_parent(own.w, c).w)
       ELSE r.exc = own.exc /\ Snapshot(r.w) = Snapshot(own.w)

ChunkFramed(c, x) ==
    IF InHorizon(x.index)
    THEN SavedOnRoot(save_chunk(World, c, x.index, ChunkData(c, x)), c, x.index,
                     ChunkData(c, x))
    ELSE SavedOnSelf(save_chunk(World, c, x.index, ChunkData(c, x)), c,
                     ChunkWritten(World, c, x.index, ChunkData(c, x),
                                  static_header_offset(x.index * CHUNK_SIZE)
                                      - static_header_offset(chains[c].forkpoint)))

\* C28: save_chunk(index, chunk) called on a chain that is not the root, for
\* a chunk lying entirely within the checkpoint horizon, writes the chunk
\* into the root chain's store only: the calling chain's own store, size and
\* forkpoint are left unchanged; a chunk not within the horizon is never
\* redirected to the root: it is written into the calling chain's store.
C28_CheckpointChunksToRoot ==
    OpsLeft => \A c \in Forks : IsOk(path(World, c)) =>
        \A x \in SavedChunks : ChunkFramed(c, x)

\* with a checkpointed chunk and a fork: a chunk for the horizon saved on
\* the fork changes the root's file, and a chunk above it the fork's file
C28_Witness ==
    /\ OpsLeft
    /\ CHECKPOINTS = 1
    /\ \E c \in Forks : \E x, y \in SavedChunks :
          /\ IsOk(path(World, c))
          /\ InHorizon(x.index)
          /\ IsOk(save_chunk(World, c, x.index, ChunkData(c, x)))
          /\ save_chunk(World, c, x.index, ChunkData(c, x)).w.files[RootPath] # files[RootPath]
          /\ ~InHorizon(y.index)
          /\ IsOk(save_chunk(World, c, y.index, ChunkData(c, y)))
          /\ SwapSteps(save_chunk(World, c, y.index, ChunkData(c, y)).w.log) = 0
          /\ save_chunk(World, c, y.index, ChunkData(c, y)).w.files[path(World, c).v]
                 # files[path(World, c).v]

\* the bytes of a store that starts at height `from`, up to the record of
\* height h, and from it on
Below(f, from, h) ==
    Slice(f, 0, Max(0, static_header_offset(h) - static_header_offset(from)))

From(f, from, h) ==
    Slice(f, Max(0, static_header_offset(h) - static_header_offset(from)), Len(f))

\* chain c has a file, which holds the headers below height StoredEnd(c)
Stored(c) == IsOk(path(World, c)) /\ path(World, c).v \in DOMAIN files

StoredEnd(c) == chains[c].forkpoint + SizeOfFile(Len(files[path(World, c).v]))

\* own is the outcome of writing chunk x into the store of chain c: the store
\* is what it held below the chunk's first height followed by the chunk's
\* headers from the forkpoint on, the other stores are as they were, and the
\* chain's height is the last height of the chunk
ChunkReplacesTail(own, c, x, chunk) ==
    IsOk(own) =>
        /\ own.w.files[path(World, c).v]
               = Below(files[path(World, c).v], chains[c].forkpoint, x.index * CHUNK_SIZE)
                 \o From(chunk, x.index * CHUNK_SIZE, chains[c].forkpoint)
        /\ \A q \in DOMAIN files \ {path(World, c).v} : own.w.files[q] = files[q]
        /\ height(own.w, c) = x.index * CHUNK_SIZE + x.k - 1

\* C29: after save_chunk(index, chunk) outside the checkpoint horizon, with
\* a chunk that starts no higher than the stored headers end, and before any
\* swap it triggers, the chain's store holds exactly its previous
\* headers for the heights in [forkpoint, index * CHUNK_SIZE) followed by the
\* chunk's headers for the heights from max(forkpoint, index * CHUNK_SIZE)
\* on: the part of the chunk below the forkpoint is dropped and written to
\* no ancestor, no header stored above the chunk's last height survives, and
\* height() is the chunk's last height.
C29_ChunkReplacesTail ==
    \A c \in Registered : Stored(c) =>
        \A x \in SavedChunks :
            (~InHorizon(x.index) /\ x.index * CHUNK_SIZE <= StoredEnd(c)) =>
                ChunkReplacesTail(ChunkWritten(World, c, x.index, ChunkData(c, x),
                                               static_header_offset(x.index * CHUNK_SIZE)
                                                   - static_header_offset(chains[c].forkpoint)),
                                  c, x, ChunkData(c, x))


(***************************************************************************)
(* Saving checkpointed chunks: one or two chunks are checkpointed, the     *)
(* headers file holds any number of headers, a fork may stand above the    *)
(* last checkpoint, and chunks of the horizon are saved on any chain in    *)
(* any order, between headers saved on the root.  `call` keeps the headers *)
(* file and the height of the root as they were at the start.              *)
(***************************************************************************)
HorizonWorlds ==
    {InitWorld(n) : n \in 0..InitHeaders} \cup SwapWorlds

InitHorizon ==
    /\ TESTNET = FALSE
    /\ CHECKPOINTS \in {1, 2}
    /\ \E w \in HorizonWorlds :
          /\ Len(w.chains) > 1 => w.chains[2].forkpoint > CHECKPOINTS * CHUNK_SIZE - 1
          /\ chains = w.chains
          /\ files = w.files
          /\ blockchains = w.blockchains
          /\ call = [data |-> w.files[RootPath], height |-> height(w, 1)]
    /\ cache = EmptyWorld.cache
    /\ last = [op |-> "read_blockchains", exc |-> "ok"]
    /\ ops = 0
    /\ log = <<>>

SaveChunk(c, x) ==
    /\ InHorizon(x.index)
    /\ Commit(save_chunk(World, c, x.index, ChunkData(c, x)), "save_chunk")

NextHorizon ==
    \/ \E c \in Registered, x \in SavedChunks : SaveChunk(c, x)
    \/ \E h \in {height(World, 1) + 1} \cap 0..MaxHeight :
          SaveHeader(1, h, DGW_TARGET_SPACING, "good")

SpecHorizon == InitHorizon /\ [][NextHorizon]_vars

\* r is the outcome of saving a chunk of the horizon, kept by chain `keeper`:
\* the root's file is no shorter than it was and holds what it held outside
\* the bytes of the chunk, and the keeper stands no lower than it did
RootKept(r, keeper, index, chunk) ==
    /\ RootPath \in DOMAIN files =>
          /\ RootPath \in DOMAIN r.w.files
          /\ Len(r.w.files[RootPath]) >= Len(files[RootPath])
          /\ \A i \in 1..Len(files[RootPath]) :
                (\/ i <= static_header_offset(index * CHUNK_SIZE)
                 \/ i > static_header_offset(index * CHUNK_SIZE) + Len(chunk))
                    => r.w.files[RootPath][i] = files[RootPath][i]
    /\ height(r.w, keeper) >= height(World, keeper)

\* every save of a chunk of the horizon, on any registered chain, keeps the root
HorizonSavesKeepRoot ==
    OpsLeft => \A c \in Registered : \A x \in SavedChunks :
        (InHorizon(x.index) /\ IsOk(ChunkKeeper(World, c, x.index))) =>
            RootKept(save_chunk(World, c, x.index, ChunkData(c, x)),
                     ChunkKeeper(World, c, x.index).v, x.index, ChunkData(c, x))

\* the bytes of the headers file f that lie above the checkpointed chunks
AboveHorizon(f) == Slice(f, static_header_offset(CHECKPOINTS * CHUNK_SIZE), Len(f))

\* C30: saving a chunk that lies within the checkpoint horizon never shortens
\* the root chain: the write overwrites only the chunk's own byte range, every
\* header the root stored above that range is unchanged, and the root's
\* height after the call is at least its height before; after checkpointed
\* chunks were saved in any order the headers file is no shorter and the
\* root no lower than at the start, and the headers the file held above the
\* horizon are the ones it holds.
C30_HorizonSaveKeepsRoot ==
    /\ HorizonSavesKeepRoot
    /\ Len(files[RootPath]) >= Len(call.data)
    /\ height(World, 1) >= call.height
    /\ Slice(AboveHorizon(files[RootPath]), 0, Len(AboveHorizon(call.data)))
           = AboveHorizon(call.data)

\* two chunks are checkpointed and both were saved with other content than
\* the file had, below a header the file keeps above the horizon: the file
\* has the length and the root the height of the start
C30_Witness ==
    /\ CHECKPOINTS = 2
    /\ last.op = "save_chunk" /\ last.exc = "ok"
    /\ Slice(files[RootPath], 0, static_header_offset(CHUNK_SIZE))
           # Slice(call.data, 0, static_header_offset(CHUNK_SIZE))
    /\ Slice(files[RootPath], static_header_offset(CHUNK_SIZE),
             static_header_offset(2 * CHUNK_SIZE))
           # Slice(call.data, static_header_offset(CHUNK_SIZE),
                   static_header_offset(2 * CHUNK_SIZE))
    /\ Len(AboveHorizon(call.data)) > 0
    /\ Len(files[RootPath]) = Len(call.data)
    /\ height(World, 1) = call.height

(***************************************************************************)
(* The chainwork cache under concurrent callers.  Threads call             *)
(* get_chainwork on the chains; a call holds the lock of its chain and     *)
(* runs one iteration of its loops at a time, reading the headers files    *)
(* and _CHAINWORK_CACHE as they are at that moment.  Between the steps     *)
(* the root chain, when no caller holds its lock, may connect a chunk.     *)
(* `call` holds the frame of each thread.                                  *)
(***************************************************************************)
\* a root with InitHeaders headers and a fork of one header on it, above the
\* first chunk
CacheWorlds ==
    {GrowFork(ForkedFrom(StartRoot(InitHeaders), x.F,
                         HeaderAfter(StartRoot(InitHeaders), 1, x.F, x.dt, "good")),
              1, x.dt) :
        x \in [F : {CHUNK_SIZE, InitHeaders - 1}, dt : Deltas]}

NotCalling == [pc |-> "idle", c |-> 0, height |-> 0, cached_height |-> 0,
               running_total |-> 0, tests |-> 0, inserted |-> 0]

InitCache ==
    /\ TESTNET = FALSE
    /\ CHECKPOINTS = 1
    /\ \E w \in CacheWorlds :
          /\ chains = w.chains
          /\ files = w.files
          /\ blockchains = w.blockchains
    /\ cache = EmptyWorld.cache
    /\ last = [op |-> "read_blockchains", exc |-> "ok"]
    /\ ops = 0
    /\ log = <<>>
    /\ call = [t \in Threads |-> NotCalling]

\* no thread is inside a method of chain c
LockFree(c) == \A t \in Threads : call[t].pc = "idle" \/ call[t].c # c

\* thread t goes on with the given frame; nothing but the cache may change
Step(t, frame, newcache) ==
    /\ call' = [call EXCEPT ![t] = frame]
    /\ cache' = newcache
    /\ UNCHANGED <<chains, files, blockchains, TESTNET, CHECKPOINTS, last, log>>

\* @with_lock get_chainwork(height): last_retarget is computed
CallGetChainwork(t, c, h) ==
    /\ call[t].pc = "idle"
    /\ OpsLeft
    /\ LockFree(c)
    /\ h <= height(World, c)
    /\ ops' = ops + 1
    /\ Step(t, [pc |-> "back", c |-> c, height |-> h, cached_height |-> LastRetarget(h),
                running_total |-> 0, tests |-> 0, inserted |-> 0], cache)

\* a backward walk that goes on below the sentinel while nothing is cached
BackStepPast(t) ==
    /\ call[t].pc = "back"
    /\ UNCHANGED ops
    /\ Step(t,
            IF ~IsOk(get_hash(World, call[t].c, Max(call[t].cached_height, 0 - 1)))
            THEN NotCalling
            ELSE IF get_hash(World, call[t].c, Max(call[t].cached_height, 0 - 1)).v
                        \in DOMAIN cache
                    /\ call[t].cached_height < 0 - 1
            THEN [call[t] EXCEPT !.pc = "start", !.tests = @ + 1]
            ELSE [call[t] EXCEPT !.cached_height = @ - CHUNK_SIZE, !.tests = @ + 1],
            cache)

\* one test of `while _CHAINWORK_CACHE.get(self.get_hash(cached_height)) is None`
BackStep(t) ==
    /\ call[t].pc = "back"
    /\ UNCHANGED ops
    /\ Step(t,
            IF ~IsOk(get_hash(World, call[t].c, call[t].cached_height)) THEN NotCalling
            ELSE IF get_hash(World, call[t].c, call[t].cached_height).v \in DOMAIN cache
                    \/ call[t].cached_height <= 0 - 1
            THEN [call[t] EXCEPT !.pc = "start", !.tests = @ + 1]
            ELSE [call[t] EXCEPT !.cached_height = @ - CHUNK_SIZE, !.tests = @ + 1],
            cache)

\* running_total = _CHAINWORK_CACHE[self.get_hash(cached_height)]
StartTotal(t) ==
    /\ call[t].pc = "start"
    /\ UNCHANGED ops
    /\ Step(t,
            IF \/ ~(call[t].cached_height >= 0 - 1)
               \/ ~IsOk(get_hash(World, call[t].c, call[t].cached_height))
               \/ get_hash(World, call[t].c, call[t].cached_height).v \notin DOMAIN cache
            THEN NotCalling
            ELSE [call[t] EXCEPT
                     !.pc = "forward",
                     !.running_total =
                         cache[get_hash(World, call[t].c, call[t].cached_height).v]],
            cache)

\* one iteration of `while cached_height < last_retarget`, or the return
ForwardStep(t) ==
    /\ call[t].pc = "forward"
    /\ UNCHANGED ops
    /\ IF ~(call[t].cached_height < LastRetarget(call[t].height))
          \/ ~IsOk(chainwork_of_header_at_height(World, call[t].c,
                                                  call[t].cached_height + CHUNK_SIZE))
          \/ ~IsOk(get_hash(World, call[t].c, call[t].cached_height + CHUNK_SIZE))
       THEN Step(t, NotCalling, cache)
       ELSE Step(t,
                 [call[t] EXCEPT
                     !.cached_height = @ + CHUNK_SIZE,
                     !.inserted = @ + 1,
                     !.running_total =
                         @ + CHUNK_SIZE
                               * chainwork_of_header_at_height(
                                     World, call[t].c,
                                     call[t].cached_height + CHUNK_SIZE).v],
                 SetKey(cache,
                        get_hash(World, call[t].c, call[t].cached_height + CHUNK_SIZE).v,
                        call[t].running_total
                            + CHUNK_SIZE
                                  * chainwork_of_header_at_height(
                                        World, call[t].c,
                                        call[t].cached_height + CHUNK_SIZE).v))

\* connect_chunk on the root, whose save_chunk takes the root's lock
ConnectOnRoot(c, x) ==
    /\ chains[c].parent = 0
    /\ LockFree(c)
    /\ ConnectChunk(c, x.index, x.k, DGW_TARGET_SPACING, x.kind, x.proof)

NextCache ==
    \/ \E t \in Threads, c \in Registered, h \in 0..MaxHeight : CallGetChainwork(t, c, h)
    \/ \E t \in Threads : BackStep(t)
    \/ \E t \in Threads : StartTotal(t)
    \/ \E t \in Threads : ForwardStep(t)
    \/ \E c \in Registered, x \in ChunkInputs : ConnectOnRoot(c, x)

SpecCache == InitCache /\ [][NextCache]_vars

\* C31: the chainwork cache is append-only under any interleaving: the
\* height -1 sentinel entry mapping to 0 is always present, no entry is ever
\* removed, and an entry once inserted is never overwritten with a different
\* value, even when several threads or several chains compute overlapping
\* boundary entries concurrently.
C31_CacheAppendOnly ==
    [][/\ ZERO_HASH \in DOMAIN cache' /\ cache'[ZERO_HASH] = 0
       /\ \A k \in DOMAIN cache : k \in DOMAIN cache' /\ cache'[k] = cache[k]]_vars

(***************************************************************************)
(* Content of the chainwork cache.                                         *)
(***************************************************************************)
\* the chunks of which a chain may hold the last header
Boundaries == 1..((MaxHeight + 1) \div CHUNK_SIZE)

\* the sum over j = 1..k of CHUNK_SIZE * work(target required at height
\* CHUNK_SIZE * j - 1) over the headers chain c resolves
RECURSIVE BoundarySum(_, _, _)
BoundarySum(w, c, k) ==
    IF k = 0 THEN Ok(0)
    ELSE Bind(BoundarySum(w, c, k - 1), LAMBDA below :
            Bind(chainwork_of_header_at_height(w, c, CHUNK_SIZE * k - 1), LAMBDA work :
                Ok(below + CHUNK_SIZE * work)))

\* key is the hash of the last header of chunk k - 1 of chain c, which
\* resolves a header at every height up to it
KeyOf(w, c, k, key) ==
    /\ CHUNK_SIZE * k - 1 <= height(w, c)
    /\ \A h \in 0..(CHUNK_SIZE * k - 1) : IsOk(get_hash(w, c, h))
    /\ get_hash(w, c, CHUNK_SIZE * k - 1).v = key

\* C32: every cache entry is correct for its key: in every reachable state,
\* for each key other than the sentinel that is the hash of the header at a
\* height of the form CHUNK_SIZE * k - 1 (k >= 1) of a registered chain, the
\* value equals the sum over j = 1..k of CHUNK_SIZE * work(target required
\* at height CHUNK_SIZE * j - 1) along the headers of that chain.
C32_CacheEntriesCorrect ==
    \A key \in DOMAIN cache \ {ZERO_HASH} : \A c \in Registered : \A k \in Boundaries :
        (KeyOf(World, c, k, key) /\ IsOk(BoundarySum(World, c, k))) =>
            cache[key] = BoundarySum(World, c, k).v

(***************************************************************************)
(* Termination of get_chainwork: the frame of a call counts the tests of   *)
(* its backward walk and the insertions of its forward walk.               *)
(***************************************************************************)
\* thread t is inside get_chainwork
Calling(t) == call[t].pc # "idle"

\* the walks of a call with frame f are within their bounds
WalksBounded(f) ==
    f.pc # "idle" =>
        /\ f.cached_height >= 0 - 1
        /\ f.cached_height <= LastRetarget(f.height)
        /\ f.tests <= f.height \div CHUNK_SIZE + 1
        /\ f.inserted <= f.height \div CHUNK_SIZE

\* a bound on the steps a call with frame f has left
StepsLeft(f) ==
    IF f.pc = "back"
    THEN 3 + f.height \div CHUNK_SIZE + (f.cached_height + 1) \div CHUNK_SIZE
    ELSE IF f.pc = "start" THEN 2 + (LastRetarget(f.height) - f.cached_height) \div CHUNK_SIZE
    ELSE IF f.pc = "forward"
    THEN 1 + (LastRetarget(f.height) - f.cached_height) \div CHUNK_SIZE
    ELSE 0

\* a step of the call of thread t leaves it with fewer steps to go
Advances(t) ==
    (Calling(t) /\ call'[t] # call[t]) =>
        StepsLeft(call'[t]) >= 0 /\ StepsLeft(call'[t]) < StepsLeft(call[t])

\* C33: get_chainwork(h) terminates for every chain and every
\* 0 <= h <= height(): the backward walk over chunk boundaries stops at the
\* latest when it reaches the height -1 sentinel (cached_height never drops
\* below -1) after at most h \div CHUNK_SIZE + 1 tests, the forward walk
\* performs at most h \div CHUNK_SIZE insertions, and every step of a call
\* lowers a bound on the steps it has left.
C33_GetChainworkTerminates ==
    [][\A t \in Threads : WalksBounded(call'[t]) /\ Advances(t)]_vars

\* a call for a height of the third chunk that walked back to the sentinel
\* and has made its two insertions
C33_Witness ==
    \E t \in Threads :
        /\ call[t].pc = "forward"
        /\ call[t].height \div CHUNK_SIZE = 2
        /\ call[t].tests = 3
        /\ call[t].inserted = 2
        /\ call[t].cached_height = LastRetarget(call[t].height)

(***************************************************************************)
(* Bounds of the required target.                                          *)
(***************************************************************************)
\* heights a target is asked for: those of the stored headers and the two
\* above
TargetHeights == 0..(MaxHeight + 2)

\* target_timespan of the windowed average
WindowTimespan == DGW_PAST_BLOCKS * DGW_TARGET_SPACING

\* time spans and spacings the headers may show, in and out of the clamps
ObservedTimes ==
    {0 - WindowTimespan, 0 - 1, 0, 1, WindowTimespan \div 3, WindowTimespan,
     WindowTimespan * 3, WindowTimespan * 3 + 1, WindowTimespan * 30}

Clamped(x, lo, hi) == IF x < lo THEN lo ELSE IF x > hi THEN hi ELSE x

\* the windowed retarget uses the time span clamped to [T/3, 3T]
WindowClamped ==
    \A avg \in SynthTargets : \A time_span \in ObservedTimes :
        DgwRetarget(avg, time_span)
            = DgwRetarget(avg, Clamped(time_span, WindowTimespan \div 3, WindowTimespan * 3))

\* the single-previous-header retarget takes a negative spacing for 1
NegativeSpacingIsOne ==
    \A h \in TargetHeights : \A t \in SynthTargets : \A spacing \in ObservedTimes :
        spacing < 0 => PosRetarget(h, spacing, t) = PosRetarget(h, 1, t)

\* target is within the bounds of the regime of height h
WithinRegime(h, target) ==
    IF h = 0 THEN target = MAX_TARGET
    ELSE IF h - 1 > LAST_POW_BLOCK THEN 1 <= target /\ target <= bnTargetLimit
    ELSE target <= MIN_POW

\* C34: get_target always returns a target inside its regime's bounds:
\* height 0 gives the fixed maximum target; in the windowed-average regime
\* the observed timespan is clamped to [T/3, 3T] and the result never exceeds
\* the easiest-target floor; in the single-previous-header regime (heights
\* above LAST_POW_BLOCK + 1) a negative inter-block spacing is replaced by 1
\* and the result lies in [1, fixed ceiling].
C34_TargetWithinBounds ==
    /\ WindowClamped
    /\ NegativeSpacingIsOne
    /\ \A c \in Registered : \A h \in TargetHeights :
          IsOk(get_target(World, c, h, <<>>)) =>
              WithinRegime(h, get_target(World, c, h, <<>>).v)

(***************************************************************************)
(* verify_chunk against the headers a chain resolves.                      *)
(***************************************************************************)
\* the chunks offered to chain c: whole or the first header only, on top of
\* what c holds below the chunk, at either spacing; the last header is good,
\* does not link or carries other bits
OfferedChunks ==
    {x \in [index : 0..(MaxHeight \div CHUNK_SIZE), k : {1, CHUNK_SIZE}, dt : Deltas,
            kind : {"good", "badprev", "wrongbits"}] :
        x.index * CHUNK_SIZE + x.k - 1 <= MaxHeight}

OfferedData(c, x) == ChunkOn(World, c, x.index, x.k, x.dt, x.kind)

\* the headers of a chunk that starts at height h, as verify_chunk cuts them
RECURSIVE HeadersOf(_, _)
HeadersOf(data, h) ==
    IF Len(data) = 0 THEN <<>>
    ELSE Let(get_header_size(Slice(data, 0, PRE_ZEROCOIN_HEADER_SIZE)), LAMBDA headerSize :
            IF ~IsOk(deserialize_header(Slice(data, 0, headerSize), h)) THEN <<>>
            ELSE <<deserialize_header(Slice(data, 0, headerSize), h).v>>
                 \o HeadersOf(Slice(data, Min(headerSize, Len(data)), Len(data)), h + 1))

\* the chunk contradicts nothing chain c resolves: its first header names the
\* hash c has below the chunk, and where c has a header the chunk has the same
Agrees(w, c, index, data) ==
    /\ IsOk(get_hash(w, c, index * CHUNK_SIZE - 1))
    /\ Len(HeadersOf(data, index * CHUNK_SIZE)) > 0
    /\ HeadersOf(data, index * CHUNK_SIZE)[1].prev_block_hash
           = get_hash(w, c, index * CHUNK_SIZE - 1).v
    /\ \A i \in 1..Len(HeadersOf(data, index * CHUNK_SIZE)) :
          IsOk(get_hash(w, c, index * CHUNK_SIZE + i - 1)) =>
              hash_header(HeadersOf(data, index * CHUNK_SIZE)[i])
                  = get_hash(w, c, index * CHUNK_SIZE + i - 1).v

\* a call of verify_chunk on a headers file of any length, with or without a
\* fork above the last checkpoint, on either network; `last` keeps the call
\* and how it ended
InitChunks ==
    /\ TESTNET \in BOOLEAN
    /\ CHECKPOINTS \in {0, 1}
    /\ \E w \in HorizonWorlds :
          /\ Len(w.chains) > 1 => w.chains[2].forkpoint > CHECKPOINTS * CHUNK_SIZE - 1
          /\ chains = w.chains
          /\ files = w.files
          /\ blockchains = w.blockchains
    /\ cache = EmptyWorld.cache
    /\ last = [op |-> "none", c |-> 0, index |-> 0, k |-> 0, dt |-> 0, kind |-> "good",
               exc |-> "ok"]
    /\ ops = 0
    /\ log = <<>>
    /\ call = NoCall

VerifyChunk(c, x) ==
    /\ last.op = "none"
    /\ last' = [op |-> "verify_chunk", c |-> c, index |-> x.index, k |-> x.k, dt |-> x.dt,
                kind |-> x.kind,
                exc |-> verify_chunk(World, c, x.index, OfferedData(c, x)).exc]
    /\ UNCHANGED <<chains, files, blockchains, cache, TESTNET, CHECKPOINTS, ops, log, call>>

NextChunks == \E c \in Registered, x \in OfferedChunks : VerifyChunk(c, x)

SpecChunks == InitChunks /\ [][NextChunks]_vars

\* the chunk of the call `last` records
LastData == ChunkOn(World, last.c, last.index, last.k, last.dt, last.kind)

\* C35: verify_chunk on a chain rejects any chunk that contradicts headers
\* the chain already resolves: for every height covered by the chunk at which
\* the chain (own store or ancestor, or the genesis constant at height 0)
\* already has a header, the chunk's header at that height must hash to the
\* same value, otherwise verification fails; the first header's
\* prev_block_hash must equal the chain's hash at the height just below the
\* chunk.
C35_VerifyChunkAgrees ==
    (last.op = "verify_chunk" /\ last.exc = "ok") =>
        Agrees(World, last.c, last.index, LastData)

\* a fork answers for the heights of a chunk from its parent's store and its
\* own: a chunk of headers at another spacing than the stored ones, which
\* link and carry the bits required, was rejected, and the chunk of the
\* headers the fork resolves passes
C35_Witness ==
    /\ last.op = "verify_chunk" /\ last.exc # "ok"
    /\ last.c \in Forks
    /\ last.k = CHUNK_SIZE /\ last.kind = "good"
    /\ last.index * CHUNK_SIZE < chains[last.c].forkpoint
    /\ chains[last.c].forkpoint <= last.index * CHUNK_SIZE + CHUNK_SIZE - 1
    /\ last.index * CHUNK_SIZE + CHUNK_SIZE - 1 <= height(World, last.c)
    /\ ~Agrees(World, last.c, last.index, LastData)
    /\ \E dt \in Deltas \ {last.dt} :
          /\ IsOk(verify_chunk(World, last.c, last.index,
                                ChunkOn(World, last.c, last.index, last.k, dt, last.kind)))
          /\ Agrees(World, last.c, last.index,
                    ChunkOn(World, last.c, last.index, last.k, dt, last.kind))

=============================================================================
